---- MODULE Spec2Model ----
(***************************************************************************)
(* Model of the CustomDatabase storage engine: the content-addressed page *)
(* store (ContentStorage), the LRU page cache (PageCache), the writer     *)
(* queue, the write-ahead log (WALManager) and the B+-tree (BTree) built  *)
(* on top of them.  BTree is modelled in its <int,int> instantiation: a   *)
(* key and a value are both one 4-byte word, so Page::data is a sequence  *)
(* of value words and sizeof(ValueType) is one unit.                      *)
(*                                                                         *)
(* shared_ptr<Page> values are addresses into `heap`, so that two holders *)
(* of the same pointer see each other's in-place changes.                  *)
(***************************************************************************)
EXTENDS Integers, Sequences, FiniteSets, TLC

\* ---------------------------------------------------------------- bounds
MaxKey == 2
MaxVal == 2
MaxOps == 2
MaxPad == 1
MaxRestarts == 1
MaxRecoveredOps == 0
MaxCacheOps == 3
MaxWalOps == 4
MaxCacheSize == 2
MaxId == 2
MaxQueue == 2
MaxQueueOps == 3
MaxJobs == 2
MaxNow == 1
MaxPageOps == 5
MaxStoreOps == 4
MaxAllocOps == 5
MaxCheckpoints == 2
MaxCkptInserts == 1
MaxTxnOps == 4

Keys == 1..MaxKey
Values == 1..MaxVal

\* ------------------------------------------------------ program constants
UINT16 == 65536
maxKeysPerNode == 3
TreeCacheSize == 50
TreeWalBuffer == 8192
NumWriterThreads == 2
NumJobWorkers == 2
SizeofSlotEntry == 8
DefaultMaxQueue == 1000
max_batch_size == 10
SizeofHeader == 40
SizeofDataRecord == 96
SizeofValue == 4

Null == 0
EmptyString == <<-1>>

\* --------------------------------------------------------------- helpers
Put(f, k, v) == (k :> v) @@ f

Drop(f, k) == [x \in (DOMAIN f) \ {k} |-> f[x]]

EmptyMap == [x \in {} |-> 0]

Last(s) == s[Len(s)]

Front(s) == SubSeq(s, 1, Len(s) - 1)

InsertAt(s, i, x) == SubSeq(s, 1, i - 1) \o <<x>> \o SubSeq(s, i, Len(s))

RemoveAt(s, i) == SubSeq(s, 1, i - 1) \o SubSeq(s, i + 1, Len(s))

SetMax(S) == CHOOSE x \in S : \A y \in S : y <= x

\* ------------------------------------------------------------------ Page
\* createPage leaves header.page_id uninitialised: `pid` is the value the
\* build happens to leave there.
createPage(is_leaf, pid) ==
  [page_id |-> pid, is_leaf |-> is_leaf, keys |-> <<>>, children |-> <<>>,
   data |-> <<>>, content_hash |-> EmptyString]

\* ContentHash::computeHash: std::to_string(std::hash<std::string>(content)),
\* taken as free of collisions: the value stands for the bytes hashed.
computeHash(content) == [std_hash |-> content]

updateContentHash(page) ==
  [page EXCEPT !.content_hash = computeHash(page.keys \o page.data)]

\* ------------------------------------------------------------------ heap
NewAddr(m) == Len(m.heap) + 1

\* std::make_shared<Page>(page)
make_shared(m, page) ==
  [m |-> [m EXCEPT !.heap = Put(@, NewAddr(m), page)], r |-> NewAddr(m)]

Emit(m, ev) == [m EXCEPT !.events = Append(@, ev)]

\* -------------------------------------------------------- ContentStorage
storePage_nodedup(m, page) ==
  LET page_copy == updateContentHash(page)
      id == m.next_page_id
      a == NewAddr(m)
  IN [m |-> Emit([m EXCEPT !.next_page_id = (id + 1) % UINT16,
                           !.page_to_hash = Put(@, id, page_copy.content_hash),
                           !.heap = Put(@, a, [page_copy EXCEPT !.page_id = id]),
                           !.content_map = Put(@, page_copy.content_hash, a)],
                 [e |-> "blob", id |-> id]),
      r |-> id]

storePage(m, page) ==
  LET page_copy == updateContentHash(page)
      content_hash == page_copy.content_hash
  IN IF content_hash \in DOMAIN m.content_map
     THEN [m |-> m, r |-> m.heap[m.content_map[content_hash]].page_id]
     ELSE LET id == m.next_page_id
              a == NewAddr(m)
          IN [m |-> Emit([m EXCEPT !.next_page_id = (id + 1) % UINT16,
                                   !.page_to_hash = Put(@, id, content_hash),
                                   !.heap = Put(@, a, [page_copy EXCEPT !.page_id = id]),
                                   !.content_map = Put(@, content_hash, a)],
                         [e |-> "blob", id |-> id]),
              r |-> id]

\* ContentStorage::getPage: the shared_ptr held by content_map, or Null.
casGetPage(m, page_id) ==
  IF page_id \notin DOMAIN m.page_to_hash THEN Null
  ELSE IF m.page_to_hash[page_id] \notin DOMAIN m.content_map THEN Null
  ELSE m.content_map[m.page_to_hash[page_id]]

\* ------------------------------------------------------------- PageCache
updateLRU(m, page_id) ==
  [m EXCEPT !.lru_order = <<page_id>> \o SelectSeq(@, LAMBDA x : x # page_id)]

evictLRU(m) ==
  IF m.lru_order = <<>> THEN m
  ELSE LET lru_page_id == Last(m.lru_order)
       IN [(IF lru_page_id \in DOMAIN m.cache /\ m.cache[lru_page_id].is_dirty
            THEN storePage(m, m.heap[m.cache[lru_page_id].page]).m
            ELSE m)
           EXCEPT !.cache = Drop(@, lru_page_id), !.lru_order = Front(@)]

RECURSIVE evictIfNeeded(_)
evictIfNeeded(m) ==
  IF Cardinality(DOMAIN m.cache) >= m.max_cache_size /\ m.lru_order # <<>>
  THEN evictIfNeeded(evictLRU(m))
  ELSE m

getPage(m, page_id) ==
  IF page_id \in DOMAIN m.cache
  THEN [m |-> updateLRU(m, page_id), r |-> m.cache[page_id].page]
  ELSE LET page == casGetPage(m, page_id)
       IN IF page = Null THEN [m |-> m, r |-> Null]
          ELSE [m |-> updateLRU([evictIfNeeded(m) EXCEPT
                                   !.cache = Put(@, page_id, [page |-> page, is_dirty |-> FALSE])],
                                page_id),
                r |-> page]

putPage_noevict(m, page_id, page) ==
  Emit(updateLRU([m EXCEPT
                    !.cache = Put(@, page_id, [page |-> page, is_dirty |-> TRUE])],
                 page_id),
       [e |-> "put", id |-> page_id])

putPage(m, page_id, page) ==
  Emit(updateLRU([evictIfNeeded(m) EXCEPT
                    !.cache = Put(@, page_id, [page |-> page, is_dirty |-> TRUE])],
                 page_id),
       [e |-> "put", id |-> page_id])

markDirty(m, page_id) ==
  IF page_id \in DOMAIN m.cache
  THEN updateLRU([m EXCEPT !.cache[page_id].is_dirty = TRUE], page_id)
  ELSE m

clearDirtyFlag(m, page_id) ==
  IF page_id \in DOMAIN m.cache
  THEN [m EXCEPT !.cache[page_id].is_dirty = FALSE]
  ELSE m

RECURSIVE flushAll_keepdirty(_, _)
flushAll_keepdirty(m, order) ==
  IF order = <<>> THEN m
  ELSE LET id == Head(order)
       IN flushAll_keepdirty(IF m.cache[id].is_dirty
                             THEN storePage(m, m.heap[m.cache[id].page]).m
                             ELSE m,
                             Tail(order))

\* flushAll walks the unordered_map; `order` is the iteration order of the
\* cached ids.
RECURSIVE flushAll(_, _)
flushAll(m, order) ==
  IF order = <<>> THEN m
  ELSE LET id == Head(order)
       IN flushAll(IF m.cache[id].is_dirty
                   THEN [storePage(m, m.heap[m.cache[id].page]).m
                           EXCEPT !.cache[id].is_dirty = FALSE]
                   ELSE m,
                   Tail(order))

\* ----------------------------------------------------------- WriterQueue
enqueueWrite_unbounded(m, page_id, page) ==
  [m |-> [m EXCEPT !.write_queue = Append(@, [page_id |-> page_id, page |-> page])],
   r |-> TRUE]

enqueueWrite(m, page_id, page) ==
  IF Len(m.write_queue) >= m.max_queue_size
  THEN [m |-> m, r |-> FALSE]
  ELSE [m |-> [m EXCEPT !.write_queue = Append(@, [page_id |-> page_id, page |-> page])],
        r |-> TRUE]

Min(a, b) == IF a < b THEN a ELSE b

\* getBatch: up to max_batch_size requests leave the queue under the lock.
getBatch(m, w) ==
  LET n == Min(Len(m.write_queue), max_batch_size)
  IN [m EXCEPT !.batch[w] = SubSeq(m.write_queue, 1, n),
               !.write_queue = SubSeq(@, n + 1, Len(@))]

\* ------------------------------------------------------------ WALManager
\* WALManager::calculateChecksum over `bytes`, the 32-bit result given as
\* the set of its bits that are 1. The loop shifts the register one bit up
\* for every byte and xors the byte in, so byte i of n ends up shifted by
\* n - i bits: bit k of the result is the xor of the bits k - (n - i) of
\* all bytes i, and what is shifted past bit 31 is lost.
calculateChecksum(bytes) ==
  {k \in 0..31 :
     Cardinality({i \in DOMAIN bytes :
                    /\ k - (Len(bytes) - i) \in 0..7
                    /\ (bytes[i] \div 2^(k - (Len(bytes) - i))) % 2 = 1}) % 2 = 1}

HeaderRecord(type, txn_id, lsn) ==
  [type |-> type, record_size |-> SizeofHeader, transaction_id |-> txn_id,
   lsn |-> lsn, checksum |-> {}, page_id |-> 0, key |-> 0, pad |-> 0,
   data |-> <<>>]

\* `pad` is the content of the two padding bytes between page_id and key
\* in WALDataRecord, which the constructor leaves uninitialised.
DataRecord(type, txn_id, lsn, page_id, key, pad, data) ==
  [type |-> type, record_size |-> SizeofDataRecord + SizeofValue * Len(data),
   transaction_id |-> txn_id, lsn |-> lsn, checksum |-> {}, page_id |-> page_id,
   key |-> key, pad |-> pad, data |-> data]

\* record.checksum = calculateChecksum(&record, sizeof(record) - sizeof(checksum)):
\* the sum runs over the struct from its first byte up to four bytes before
\* its end, the checksum field (bytes 24..27, still 0) included. `image` is
\* that struct, little-endian: type, record_size, transaction_id, lsn,
\* checksum, timestamp, then for a data record page_id, the padding, key
\* and the two vector headers. The clock reading, the padding of the
\* header and the pointers of the vectors stand as zero bytes.
Summed(rec) ==
  LET LE(v, n) == [i \in 1..n |-> IF i > 4 THEN 0 ELSE (v \div 256^(i - 1)) % 256]
      code == CASE rec.type = "INSERT" -> 1 [] rec.type = "DELETE" -> 2
                [] rec.type = "CHECKPOINT" -> 4 [] rec.type = "COMMIT" -> 5
                [] rec.type = "ABORT" -> 6
      header == LE(code, 4) \o LE(rec.record_size, 4) \o LE(rec.transaction_id, 8)
                  \o LE(rec.lsn, 8) \o LE(0, 16)
      image == IF rec.type \in {"INSERT", "DELETE"}
               THEN header \o LE(rec.page_id, 2) \o LE(rec.pad, 2) \o LE(rec.key, 4)
                      \o LE(0, 48)
               ELSE header
  IN [rec EXCEPT !.checksum = calculateChecksum(SubSeq(image, 1, Len(image) - 4))]

RECURSIVE BufferBytes(_)
BufferBytes(buf) ==
  IF buf = <<>> THEN 0 ELSE Head(buf).record_size + BufferBytes(Tail(buf))

flushBuffer(m) ==
  IF m.write_buffer # <<>>
  THEN [m EXCEPT !.wal_file = @ \o m.write_buffer, !.write_buffer = <<>>]
  ELSE m

flushIfFull(m) ==
  IF BufferBytes(m.write_buffer) >= m.buffer_size_limit THEN flushBuffer(m) ELSE m

beginTransaction(m) ==
  [m |-> [m EXCEPT !.next_transaction_id = @ + 1], r |-> m.next_transaction_id]

walAppend(m, rec) ==
  Emit([m EXCEPT !.next_lsn = @ + 1,
                 !.write_buffer = Append(@, rec),
                 !.appended = Append(@, rec)],
       [e |-> "wal", id |-> rec.lsn])

commitTransaction_noflush(m, txn_id) ==
  flushIfFull(walAppend(m, Summed(HeaderRecord("COMMIT", txn_id, m.next_lsn))))

commitTransaction(m, txn_id) ==
  flushBuffer(flushIfFull(walAppend(m, Summed(HeaderRecord("COMMIT", txn_id, m.next_lsn)))))

abortTransaction(m, txn_id) ==
  walAppend(m, Summed(HeaderRecord("ABORT", txn_id, m.next_lsn)))

logInsert(m, txn_id, page_id, key, data, pad) ==
  [m |-> flushIfFull(walAppend(m, Summed(DataRecord("INSERT", txn_id, m.next_lsn, page_id,
                                                    key, pad, data)))),
   r |-> m.next_lsn]

logDelete(m, txn_id, page_id, key, old_data, pad) ==
  [m |-> flushIfFull(walAppend(m, Summed(DataRecord("DELETE", txn_id, m.next_lsn, page_id,
                                                    key, pad, old_data)))),
   r |-> m.next_lsn]

\* The CHECKPOINT record bypasses the buffer and goes straight to the file.
writeCheckpoint(m) ==
  LET m1 == flushBuffer(m)
      lsn == m1.next_lsn
      rec == Summed(HeaderRecord("CHECKPOINT", m1.next_transaction_id, lsn))
  IN [m |-> Emit([m1 EXCEPT !.next_lsn = @ + 1,
                            !.next_transaction_id = @ + 1,
                            !.wal_file = Append(@, rec),
                            !.appended = Append(@, rec),
                            !.last_checkpoint_lsn = lsn],
                 [e |-> "wal", id |-> lsn]),
      r |-> lsn]

sync(m) == flushBuffer(m)

\* truncate only prints a message.
truncate(m, up_to_lsn) == m

\* --------------------------------------------------- CheckpointManager
\* Steps 3 and 4 of performCheckpoint, `c` being the outcome of
\* writeCheckpoint: sync, then the LSN and the counter are recorded.
recordCheckpoint(c) ==
  [sync(c.m) EXCEPT !.checkpointer.last_checkpoint_lsn = c.r,
                    !.checkpointer.checkpoints_completed = @ + 1]

\* performCheckpoint: flushAll, writeCheckpoint, sync, bookkeeping.
performCheckpoint(m, order) == recordCheckpoint(writeCheckpoint(flushAll(m, order)))

\* ----------------------------------------------------------------- BTree
\* `u` carries the values of the reads the C++ leaves undefined in one call:
\*   u.pid  header.page_id of a page fresh from createPage (never assigned),
\*          also the value of an out-of-range children[] read,
\*   u.oob  the value of keys[mid] read after keys.resize(mid) in splitChild,
\*   u.pad  the padding bytes of the WALDataRecord written by the call.
Swap(s, i, j) == [s EXCEPT ![i] = s[j], ![j] = s[i]]

\* The insertion-sort loop of insertNonFull: the new key sits at position j
\* (1-based) and moves left while it is smaller than its left neighbour, its
\* data block moving with it.
RECURSIVE SortIn(_, _, _)
SortIn(keys, data, j) ==
  IF j > 1 /\ keys[j] < keys[j - 1]
  THEN SortIn(Swap(keys, j, j - 1),
              IF j <= Len(data) THEN Swap(data, j, j - 1) ELSE data,
              j - 1)
  ELSE [keys |-> keys, data |-> data]

\* `while (i >= 0 && key < node->keys[i]) i--; i++;` with i starting at the
\* last key: the 0-based index of the child to descend into.
RECURSIVE ChildIndex(_, _, _)
ChildIndex(keys, key, i) ==
  IF i >= 1 /\ key < keys[i] THEN ChildIndex(keys, key, i - 1) ELSE i

\* `while (idx < size && key > keys[idx]) idx++` from idx = 0 (0-based result).
RECURSIVE ScanIndex(_, _, _)
ScanIndex(keys, key, idx) ==
  IF idx < Len(keys) /\ key > keys[idx + 1] THEN ScanIndex(keys, key, idx + 1) ELSE idx

\* children[i] for a 0-based i; an out-of-range read yields u.pid.
ChildAt(page, i, u) ==
  IF i + 1 <= Len(page.children) THEN page.children[i + 1] ELSE u.pid

\* page_cache.putPage(id, std::make_shared<Page>(page))
putShared(m, page_id, page) ==
  LET a == make_shared(m, page) IN putPage(a.m, page_id, a.r)

\* writer_queue.enqueueWrite(id, std::make_shared<Page>(page))
enqueueShared(m, page_id, page) ==
  LET a == make_shared(m, page) IN enqueueWrite(a.m, page_id, a.r).m

\* The two calls one after the other, as every caller makes them.
putAndEnqueue(m, page_id, page) ==
  enqueueShared(putShared(m, page_id, page), page_id, page)

\* The second half of splitChild, `s` being the outcome of storePage for the
\* new child: the new child is put and enqueued under the id storePage gave,
\* then the parent object is changed in place, through the pointer.
linkNewChild(s, parent, index, new_child_page, u) ==
  [putAndEnqueue(s.m, s.r, new_child_page)
     EXCEPT !.heap[parent].children = InsertAt(@, index + 2, s.r),
            !.heap[parent].keys = InsertAt(@, index + 1, u.oob)]

splitChild(m, parent, index, child, u) ==
  LET mid == maxKeysPerNode \div 2
      c == m.heap[child]
      new_keys == SubSeq(c.keys, mid + 2, Len(c.keys))
      modified_child ==
        IF c.is_leaf
        THEN [c EXCEPT !.keys = SubSeq(c.keys, 1, mid),
                       !.data = SubSeq(c.data, 1, mid + 1)]
        ELSE [c EXCEPT !.keys = SubSeq(c.keys, 1, mid),
                       !.children = SubSeq(c.children, 1, mid + 1)]
      new_child_page ==
        IF c.is_leaf
        THEN [createPage(TRUE, u.pid) EXCEPT !.keys = new_keys,
                                             !.data = SubSeq(c.data, mid + 2, Len(c.data))]
        ELSE [createPage(FALSE, u.pid) EXCEPT !.keys = new_keys,
                                              !.children = SubSeq(c.children, mid + 2, Len(c.children))]
  IN linkNewChild(storePage(putAndEnqueue(m, modified_child.page_id, modified_child),
                            new_child_page),
                  parent, index, new_child_page, u)

insertLeaf_inplace(m, node, key, value) ==
  LET n == m.heap[node]
      sorted == SortIn(Append(n.keys, key), Append(n.data, value), Len(n.keys) + 1)
      modified_node == [n EXCEPT !.keys = sorted.keys, !.data = sorted.data]
  IN getPage(putAndEnqueue([m EXCEPT !.heap[node] = modified_node],
                           modified_node.page_id, modified_node),
             modified_node.page_id).m

\* The leaf branch of insertNonFull: the copy is changed, stored in the
\* cache and enqueued; `node = getPage(...)` rebinds the parameter only.
insertLeaf(m, node, key, value) ==
  LET n == m.heap[node]
      sorted == SortIn(Append(n.keys, key), Append(n.data, value), Len(n.keys) + 1)
      modified_node == [n EXCEPT !.keys = sorted.keys, !.data = sorted.data]
  IN getPage(putAndEnqueue(m, modified_node.page_id, modified_node),
             modified_node.page_id).m

RECURSIVE insertNonFull(_, _, _, _, _)
\* The internal branch of insertNonFull from the null test on, `g` being the
\* outcome of getPage for the child: a full child is split, and the descent
\* continues into child_page, the pointer loaded before the split.
insertIntoChild(g, node, i, key, value, u) ==
  IF g.r = Null THEN [g.m EXCEPT !.thrown = TRUE]
  ELSE insertNonFull(IF Len(g.m.heap[g.r].keys) = maxKeysPerNode
                     THEN splitChild(g.m, node, i, g.r, u)
                     ELSE g.m,
                     g.r, key, value, u)

insertNonFull(m, node, key, value, u) ==
  LET n == m.heap[node]
      i == ChildIndex(n.keys, key, Len(n.keys))
  IN IF n.is_leaf THEN insertLeaf(m, node, key, value)
     ELSE insertIntoChild(getPage(m, ChildAt(n, i, u)), node, i, key, value, u)

\* current_transaction = wal_manager.beginTransaction()
startTransaction(m) ==
  LET b == beginTransaction(m) IN [b.m EXCEPT !.current_transaction = b.r]

ensureTransaction(m) ==
  IF m.current_transaction = 0 THEN startTransaction(m) ELSE m

\* root = <the outcome g of page_cache.getPage>
setRoot(g) == [g.m EXCEPT !.root = g.r]

\* root = page_cache.getPage(id), `s` being the outcome of the storePage
\* that gave the id.
loadRoot(s) == setRoot(getPage(s.m, s.r))

\* insert with a null root: a fresh leaf is stored and becomes the root, and
\* the insert is logged against its id.
firstRoot(s, key, value, u) ==
  logInsert(loadRoot(s), s.m.current_transaction, s.r, key, <<value>>, u.pad).m

\* insert up to the write-ahead record: a null root is created, a full root
\* gets a new root above it (splitChild working on a temporary copy of
\* new_root_page).
growRoot(m, key, value, u) ==
  IF m.root = Null
  THEN firstRoot(storePage(m, createPage(TRUE, u.pid)), key, value, u)
  ELSE IF Len(m.heap[m.root].keys) = maxKeysPerNode
  THEN LET new_root_page == [createPage(FALSE, u.pid) EXCEPT
                               !.children = <<m.heap[m.root].page_id>>]
           tmp == make_shared(m, new_root_page)
       IN loadRoot([m |-> putAndEnqueue(splitChild(tmp.m, tmp.r, 0, m.root, u),
                                        new_root_page.page_id, new_root_page),
                    r |-> new_root_page.page_id])
  ELSE m

\* wal_manager.logInsert(current_transaction, root->header.page_id, key, value)
logRoot(m, key, value, u) ==
  logInsert(m, m.current_transaction, m.heap[m.root].page_id, key, <<value>>, u.pad).m

\* insertNonFull(root, key, value)
insertAtRoot(m, key, value, u) == insertNonFull(m, m.root, key, value, u)

insert_lognothing(m, key, value, u) ==
  insertAtRoot(growRoot(ensureTransaction(m), key, value, u), key, value, u)

insert(m, key, value, u) ==
  insertAtRoot(logRoot(growRoot(ensureTransaction(m), key, value, u), key, value, u),
               key, value, u)

\* findKey returns a copy of the leaf page holding the key, or throws.
RECURSIVE findKey(_, _, _)
\* The descent of findKey, `g` being the outcome of getPage for the child
\* of the page `n`.
findInChild(g, n, key) ==
  IF g.r # Null THEN findKey(g.m, g.r, key)
  ELSE [m |-> g.m, found |-> FALSE, page |-> n]

findKey(m, node, key) ==
  LET n == m.heap[node]
      idx == ScanIndex(n.keys, key, 0)
      hit == idx < Len(n.keys) /\ n.keys[idx + 1] = key
      idx2 == IF hit THEN idx + 1 ELSE idx
  IN IF n.is_leaf
     THEN [m |-> m, found |-> hit, page |-> n]
     ELSE IF idx2 < Len(n.children)
     THEN findInChild(getPage(m, n.children[idx2 + 1]), n, key)
     ELSE [m |-> m, found |-> FALSE, page |-> n]

\* The value of the first key slot equal to `key` whose data block lies
\* inside page.data; <<>> stands for nullptr, <<v>> for a pointer to v.
RECURSIVE ValueIn(_, _, _)
ValueIn(page, key, i) ==
  IF i > Len(page.keys) THEN <<>>
  ELSE IF page.keys[i] = key /\ i <= Len(page.data) THEN <<page.data[i]>>
  ELSE ValueIn(page, key, i + 1)

\* The end of search, `f` being the outcome of findKey: the value found in
\* the leaf, or nullptr (the catch block included).
valueFound(f, key) ==
  [m |-> f.m, r |-> IF f.found THEN ValueIn(f.page, key, 1) ELSE <<>>]

search_fromcache(m, key) ==
  IF m.root = Null THEN [m |-> m, r |-> <<>>]
  ELSE valueFound(findInChild(getPage(m, m.heap[m.root].page_id), m.heap[m.root], key), key)

search(m, key) ==
  IF m.root = Null THEN [m |-> m, r |-> <<>>]
  ELSE valueFound(findKey(m, m.root, key), key)

RECURSIVE deleteFromNode(_, _, _, _)
\* The internal branch of deleteFromNode from the null test on, `g` being
\* the outcome of getPage for the child; underflow of the child is left as
\* it is.
deleteFromChild(g, key, u) ==
  IF g.r = Null THEN [g.m EXCEPT !.thrown = TRUE]
  ELSE deleteFromNode(g.m, g.r, key, u)

deleteFromNode(m, node, key, u) ==
  LET n == m.heap[node]
      idx == ScanIndex(n.keys, key, 0)
      hit == idx < Len(n.keys) /\ n.keys[idx + 1] = key
      idx2 == IF hit THEN idx + 1 ELSE idx
      modified_node == [n EXCEPT !.keys = RemoveAt(@, idx + 1),
                                 !.data = RemoveAt(@, idx + 1)]
  IN IF n.is_leaf
     THEN IF hit
          THEN getPage(putAndEnqueue(m, modified_node.page_id, modified_node),
                       modified_node.page_id).m
          ELSE m
     ELSE deleteFromChild(getPage(m, ChildAt(n, idx2, u)), key, u)

\* deleteKey, an emptied internal root: `g` is the outcome of getPage for
\* its first child, which becomes the root, or a fresh leaf does.
replaceRoot(g, u) ==
  IF g.r # Null THEN setRoot(g)
  ELSE loadRoot(storePage(g.m, createPage(TRUE, u.pid)))

\* deleteKey after deleteFromNode has returned the state `d`.
shrinkRoot(d, u) ==
  LET r == d.heap[d.root]
  IN IF d.thrown THEN d
     ELSE IF ~r.is_leaf /\ r.keys = <<>>
     THEN replaceRoot(getPage(d, ChildAt(r, 0, u)), u)
     ELSE d

deleteKey(m, key, u) ==
  IF m.root = Null THEN m
  ELSE shrinkRoot(deleteFromNode(m, m.root, key, u), u)

treeCommit_keep(m) ==
  IF m.current_transaction # 0
  THEN commitTransaction(m, m.current_transaction)
  ELSE m

treeCommit(m) ==
  IF m.current_transaction # 0
  THEN [commitTransaction(m, m.current_transaction) EXCEPT !.current_transaction = 0]
  ELSE m

treeAbort(m) ==
  IF m.current_transaction # 0
  THEN [abortTransaction(m, m.current_transaction) EXCEPT !.current_transaction = 0]
  ELSE m

treeBegin(m) ==
  startTransaction(IF m.current_transaction # 0
                   THEN commitTransaction(m, m.current_transaction) ELSE m)

\* ------------------------------------------------------------- the state
VARIABLES
  heap,                 \* address -> Page: the objects behind shared_ptr<Page>
  content_map,          \* ContentStorage: content hash -> shared_ptr<Page>
  page_to_hash,         \* ContentStorage: page id -> content hash
  next_page_id,         \* ContentStorage: 16-bit id allocator
  cache,                \* PageCache: page id -> [page, is_dirty]
  lru_order,            \* PageCache: ids, most recently used first
  max_cache_size,       \* PageCache
  write_queue,          \* WriterQueue: FIFO of [page_id, page]
  max_queue_size,       \* WriterQueue
  running,              \* WriterQueue
  batch,                \* per writer thread: the dequeued batch being processed
  wpc,                  \* per writer thread: position in writerWorker
  wal_file,             \* the records in the WAL file, in file order
  write_buffer,         \* WALManager: records buffered in memory
  next_lsn,             \* WALManager
  next_transaction_id,  \* WALManager
  last_checkpoint_lsn,  \* WALManager
  buffer_size_limit,    \* WALManager
  root,                 \* BTree: shared_ptr<Page>
  current_transaction,  \* BTree
  checkpointer,         \* CheckpointManager: last_checkpoint_lsn and its counters
  scheduler,            \* JobScheduler: queue, job tables, counters, threads
  slotted,              \* page manager: the slotted Page of its caller
  storing,              \* per thread: the locals of a storePage in progress
  phase,                \* the client thread: "up", "joining", "down"
  events,               \* history: WAL appends / cache puts of the last call, in order
  appended,             \* history: records appended by the current WALManager
  wal_base,             \* history: length of the file when the WALManager opened it
  thrown,               \* history: the last call left by an exception
  last_op,              \* history: the last call, its arguments and result
  expected,             \* history: per key, the last insert or delete issued
  orig_search,          \* history: search results of the previous tree at its end
  ops,                  \* history: number of client calls so far
  restarts,             \* history: number of restarts so far
  stored,               \* history: the [content, id] of the storePage calls made
  script                \* the calls still to be issued by a scripted client

vars == <<heap, content_map, page_to_hash, next_page_id, cache, lru_order,
          max_cache_size, write_queue, max_queue_size, running, batch, wpc,
          wal_file, write_buffer, next_lsn, next_transaction_id,
          last_checkpoint_lsn, buffer_size_limit, root, current_transaction,
          checkpointer, scheduler, slotted, storing, phase, events, appended, wal_base, thrown,
          last_op, expected,
          orig_search, ops, restarts, stored, script>>

Workers == 0..(NumWriterThreads - 1)

\* What a read of indeterminate memory yields (the page_id createPage leaves
\* unset, keys[mid] read past the resized vector, the padding of a record).
Undefs == {[pid |-> g, oob |-> g, pad |-> g] : g \in 0..MaxPad}

\* The engine state as one value, for the operators above.
Me ==
  [heap |-> heap, content_map |-> content_map, page_to_hash |-> page_to_hash,
   next_page_id |-> next_page_id, cache |-> cache, lru_order |-> lru_order,
   max_cache_size |-> max_cache_size, write_queue |-> write_queue,
   max_queue_size |-> max_queue_size, running |-> running, batch |-> batch,
   wal_file |-> wal_file, write_buffer |-> write_buffer, next_lsn |-> next_lsn,
   next_transaction_id |-> next_transaction_id,
   last_checkpoint_lsn |-> last_checkpoint_lsn,
   buffer_size_limit |-> buffer_size_limit, root |-> root,
   current_transaction |-> current_transaction, checkpointer |-> checkpointer,
   scheduler |-> scheduler, slotted |-> slotted, storing |-> storing,
   events |-> <<>>, appended |-> appended, thrown |-> FALSE]

\* Page objects no shared_ptr refers to any more are freed; the remaining
\* ones are renumbered in address order (an address carries no meaning).
Live(m) ==
  ({m.root} \cup {m.cache[i].page : i \in DOMAIN m.cache}
     \cup {m.content_map[h] : h \in DOMAIN m.content_map}
     \cup {m.write_queue[i].page : i \in DOMAIN m.write_queue}
     \cup UNION {{m.batch[w][i].page : i \in DOMAIN m.batch[w]} : w \in DOMAIN m.batch})
  \ {Null}

Release(m) ==
  LET L == Live(m)
      ren(a) == IF a = Null THEN Null ELSE Cardinality({b \in L : b <= a})
      old(i) == CHOOSE a \in L : ren(a) = i
      req(q) == [i \in DOMAIN q |-> [q[i] EXCEPT !.page = ren(@)]]
  IN [m EXCEPT !.heap = [i \in 1..Cardinality(L) |-> m.heap[old(i)]],
               !.root = ren(@),
               !.cache = [i \in DOMAIN @ |-> [@[i] EXCEPT !.page = ren(@)]],
               !.content_map = [h \in DOMAIN @ |-> ren(@[h])],
               !.write_queue = req(@),
               !.batch = [w \in DOMAIN @ |-> req(@[w])]]

\* The engine state after a call: `n` with its garbage released.
Assign(n) ==
  /\ heap' = n.heap
  /\ content_map' = n.content_map
  /\ page_to_hash' = n.page_to_hash
  /\ next_page_id' = n.next_page_id
  /\ cache' = n.cache
  /\ lru_order' = n.lru_order
  /\ max_cache_size' = n.max_cache_size
  /\ write_queue' = n.write_queue
  /\ max_queue_size' = n.max_queue_size
  /\ running' = n.running
  /\ batch' = n.batch
  /\ wal_file' = n.wal_file
  /\ write_buffer' = n.write_buffer
  /\ next_lsn' = n.next_lsn
  /\ next_transaction_id' = n.next_transaction_id
  /\ last_checkpoint_lsn' = n.last_checkpoint_lsn
  /\ buffer_size_limit' = n.buffer_size_limit
  /\ root' = n.root
  /\ current_transaction' = n.current_transaction
  /\ checkpointer' = n.checkpointer
  /\ scheduler' = n.scheduler
  /\ slotted' = n.slotted
  /\ storing' = n.storing
  /\ events' = n.events
  /\ appended' = n.appended
  /\ thrown' = n.thrown

Set(m) == Assign(Release(m))

\* The threads that may be inside performCheckpoint at once: the job
\* scheduler's workers running the checkpoint job.
Checkpointers == 0..(NumJobWorkers - 1)

\* A thread outside performCheckpoint; inside, `pc` is the last step done
\* and `checkpoint_lsn` the local of that name.
NotCheckpointing == [pc |-> "idle", checkpoint_lsn |-> 0]

\* A process with nothing constructed yet, next to the WAL file `file`.
Blank(file) ==
  [heap |-> <<>>, content_map |-> EmptyMap, page_to_hash |-> EmptyMap,
   next_page_id |-> 1, cache |-> EmptyMap, lru_order |-> <<>>,
   max_cache_size |-> 0, write_queue |-> <<>>, max_queue_size |-> 0,
   running |-> FALSE, batch |-> [w \in Workers |-> <<>>],
   wal_file |-> file, write_buffer |-> <<>>, next_lsn |-> 1,
   next_transaction_id |-> 1, last_checkpoint_lsn |-> 0,
   buffer_size_limit |-> 0, root |-> Null, current_transaction |-> 0,
   checkpointer |-> [last_checkpoint_lsn |-> 0, checkpoints_completed |-> 0,
                     checkpoints_failed |-> 0,
                     caller |-> [w \in Checkpointers |-> NotCheckpointing]],
   scheduler |-> Null, slotted |-> Null,
   storing |-> [w \in Workers |-> [pc |-> "idle"]],
   events |-> <<>>, appended |-> <<>>, thrown |-> FALSE]

\* WALManager::WALManager: the file is opened for append, the counters
\* start at 1 whatever the file holds.
WALManager(m, buffer_limit) ==
  [m EXCEPT !.buffer_size_limit = buffer_limit, !.next_lsn = 1,
            !.next_transaction_id = 1, !.last_checkpoint_lsn = 0,
            !.write_buffer = <<>>, !.appended = <<>>]

\* BTree::BTree
BTreeCtor(file, pid) ==
  loadRoot(storePage(startTransaction(
                       WALManager([Blank(file) EXCEPT !.max_cache_size = TreeCacheSize,
                                                      !.max_queue_size = DefaultMaxQueue,
                                                      !.running = TRUE],
                                  TreeWalBuffer)),
                     createPage(TRUE, pid)))

NoOp == [op |-> "none", key |-> 0, val |-> 0, res |-> <<>>]

Op(name, k, v, r) == [op |-> name, key |-> k, val |-> v, res |-> r]

Mark(k, what, v) ==
  IF k \in DOMAIN expected THEN [expected EXCEPT ![k] = [st |-> what, val |-> v]]
  ELSE expected

\* ----------------------------------------------------------- WAL replay
\* replay reads sizeof(KeyType) bytes right after the two bytes of page_id,
\* while the record holds two padding bytes there: the key it hands to the
\* handler is made of the padding and the low half of the logged key.
ReadKey(rec) ==
  LET low == rec.key % UINT16
      high == IF low >= UINT16 \div 2 THEN low - UINT16 ELSE low
  IN rec.pad + UINT16 * high

\* The bytes after page_id and key up to record_size: the rest of the
\* struct image (high half of the key, both vector headers), then the data.
VarPayload(rec) ==
  [size |-> rec.record_size - SizeofHeader - 6, tail |-> rec.data]

\* REDO handlers binding the log to the tree: re-issue the logical call,
\* the value taken from the serialised bytes that end the payload.
on_insert(m, page_id, key, payload, u) ==
  IF payload.tail = <<>> THEN m ELSE insert(m, key, Last(payload.tail), u)

on_delete(m, page_id, key, payload, u) == deleteKey(m, key, u)

\* The REDO switch of replay for one data record; the history notes each
\* handler call with the LSN of the record handed over.
redo(m, header, from_lsn, u) ==
  IF header.lsn < from_lsn THEN m
  ELSE IF header.type = "INSERT"
  THEN on_insert(Emit(m, [e |-> "redo", id |-> header.lsn]),
                 header.page_id, ReadKey(header), VarPayload(header), u)
  ELSE IF header.type = "DELETE"
  THEN on_delete(Emit(m, [e |-> "redo", id |-> header.lsn]),
                 header.page_id, ReadKey(header), VarPayload(header), u)
  ELSE m

RECURSIVE replayLoop(_, _, _, _, _)
replayLoop(m, i, from_lsn, acc, u) ==
  IF i > Len(m.wal_file) THEN [m |-> m, acc |-> acc]
  ELSE LET header == m.wal_file[i]
           acc1 == [acc EXCEPT
                      !.max_seen_lsn = IF header.lsn > @ THEN header.lsn ELSE @,
                      !.max_seen_txn = IF header.transaction_id > @
                                       THEN header.transaction_id ELSE @]
       IN IF header.record_size < SizeofHeader THEN [m |-> m, acc |-> acc1]
          ELSE IF header.type = "CHECKPOINT"
          THEN replayLoop(m, i + 1, from_lsn, [acc1 EXCEPT !.last_ckpt = header.lsn], u)
          ELSE IF header.type \in {"COMMIT", "ABORT"}
          THEN replayLoop(m, i + 1, from_lsn, acc1, u)
          ELSE replayLoop(redo(m, header, from_lsn, u), i + 1, from_lsn, acc1, u)

\* The end of replay, `r` being the outcome of the loop: the counters move
\* past what the log held.
advanceCounters(r, from_lsn) ==
  [r.m EXCEPT
     !.next_lsn = IF r.acc.max_seen_lsn >= from_lsn /\ r.acc.max_seen_lsn >= @
                  THEN r.acc.max_seen_lsn + 1 ELSE @,
     !.next_transaction_id = IF r.acc.max_seen_txn >= @ THEN r.acc.max_seen_txn + 1 ELSE @,
     !.last_checkpoint_lsn = r.acc.last_ckpt]

replay(m, from_lsn, u) ==
  advanceCounters(replayLoop(m, 1, from_lsn,
                             [max_seen_lsn |-> 0, max_seen_txn |-> 0,
                              last_ckpt |-> m.last_checkpoint_lsn], u),
                  from_lsn)

\* -------------------------------------------------------- client actions
Perms(S) ==
  {f \in [1..Cardinality(S) -> S] : \A i, j \in 1..Cardinality(S) : i # j => f[i] # f[j]}

SearchAll(m) == [k \in Keys |-> search(m, k).r]

NoExpectation == [k \in Keys |-> [st |-> "none", val |-> 0]]

Same == UNCHANGED <<wpc, phase, wal_base, orig_search, restarts, stored>>

DoInsert(k, v, u) ==
  /\ Set(insert(Me, k, v, u))
  /\ last_op' = Op("insert", k, v, <<>>)
  /\ expected' = Mark(k, "ins", v)
  /\ Same

DoDelete(k, u) ==
  /\ Set(deleteKey(Me, k, u))
  /\ last_op' = Op("delete", k, 0, <<>>)
  /\ expected' = Mark(k, "del", 0)
  /\ Same

DoSearch(k) ==
  /\ \E s \in {search(Me, k)} :
       /\ Set([s.m EXCEPT !.events = events])
       /\ last_op' = Op("search", k, 0, s.r)
  /\ UNCHANGED expected
  /\ Same

DoBegin ==
  /\ Set(treeBegin(Me))
  /\ last_op' = Op("begin", 0, 0, <<>>)
  /\ UNCHANGED expected
  /\ Same

DoCommit ==
  /\ Set(treeCommit(Me))
  /\ last_op' = Op("commit", 0, current_transaction, <<>>)
  /\ UNCHANGED expected
  /\ Same

DoAbort ==
  /\ Set(treeAbort(Me))
  /\ last_op' = Op("abort", 0, current_transaction, <<>>)
  /\ UNCHANGED expected
  /\ Same

\* BTree::flush: waitForEmpty returns once the queue is empty, then flushAll.
DoFlush(order) ==
  /\ write_queue = <<>>
  /\ Set(flushAll(Me, order))
  /\ last_op' = Op("flush", 0, 0, <<>>)
  /\ UNCHANGED expected
  /\ Same

\* The process dies: everything in memory is gone, the file stays. The
\* history keeps, in last_op.val through restart and replay, how many
\* records were lost with the buffer.
DoCrash ==
  /\ Set(Blank(wal_file))
  /\ wpc' = [w \in Workers |-> "done"]
  /\ phase' = "down"
  /\ orig_search' = SearchAll(Me)
  /\ last_op' = Op("crash", 0, Len(write_buffer), <<>>)
  /\ UNCHANGED <<expected, wal_base, restarts, stored>>

\* A new process constructs a BTree next to the existing file.
DoRestart ==
  /\ Set(BTreeCtor(wal_file, 0))
  /\ wpc' = [w \in Workers |-> "idle"]
  /\ phase' = "restarted"
  /\ wal_base' = Len(wal_file)
  /\ restarts' = restarts + 1
  /\ expected' = NoExpectation
  /\ last_op' = Op("restart", 0, last_op.val, <<>>)
  /\ UNCHANGED <<orig_search, stored>>

\* While the process is down one bit of the checksum stored with one record
\* of the file flips.
DoCorrupt ==
  /\ \E i \in DOMAIN wal_file, bit \in {0, 31} :
       Set([Me EXCEPT !.wal_file[i].checksum = (@ \ {bit}) \cup ({bit} \ @)])
  /\ last_op' = Op("corrupt", 0, last_op.val, <<>>)
  /\ UNCHANGED <<expected, wpc, phase, wal_base, orig_search, restarts, stored>>

DoReplay(u) ==
  /\ Set(replay(Me, 0, u))
  /\ phase' = "up"
  /\ last_op' = Op("replay", 0, last_op.val, <<>>)
  /\ UNCHANGED <<expected, wpc, wal_base, orig_search, restarts, stored>>

Call(o, u) ==
  CASE o.op = "insert" -> DoInsert(o.key, o.val, u)
    [] o.op = "delete" -> DoDelete(o.key, u)
    [] o.op = "search" -> DoSearch(o.key)
    [] o.op = "begin" -> DoBegin
    [] o.op = "commit" -> DoCommit
    [] o.op = "abort" -> DoAbort
    [] o.op = "crash" -> DoCrash
    [] o.op = "corrupt" -> DoCorrupt
    [] o.op = "restart" -> DoRestart
    [] o.op = "replay" -> DoReplay(u)

Free == script = <<>> /\ UNCHANGED script

Counted ==
  /\ phase = "up"
  /\ ops < (IF restarts = 0 THEN MaxOps ELSE MaxRecoveredOps)
  /\ ops' = ops + 1
  /\ Free

Insert(k, v) == Counted /\ \E u \in Undefs : DoInsert(k, v, u)

Delete(k) == Counted /\ \E u \in Undefs : DoDelete(k, u)

Search(k) == phase = "up" /\ Free /\ UNCHANGED ops /\ DoSearch(k)

BeginTransaction == Counted /\ DoBegin

CommitTransaction == Counted /\ DoCommit

AbortTransaction == Counted /\ DoAbort

Flush == Counted /\ \E order \in Perms(DOMAIN cache) : DoFlush(order)

Crash == phase \in {"up", "joining"} /\ Free /\ UNCHANGED ops /\ DoCrash

Restart ==
  phase = "down" /\ restarts < MaxRestarts /\ Free /\ ops' = 0 /\ DoRestart

Replay ==
  phase = "restarted" /\ Free /\ UNCHANGED ops /\ \E u \in Undefs : DoReplay(u)

\* ~BTree up to writer_queue.stop(): commit, clear `running`, wait for the
\* writer threads.
DestructorBegin ==
  /\ phase = "up" /\ Free /\ UNCHANGED ops
  /\ Set([(IF current_transaction # 0
           THEN commitTransaction(Me, current_transaction) ELSE Me)
          EXCEPT !.running = FALSE])
  /\ phase' = "joining"
  /\ last_op' = Op("destroy", 0, Len(write_queue), <<>>)
  /\ UNCHANGED <<wpc, expected, wal_base, orig_search, restarts, stored>>

\* ~BTree after the join: flushAll, sync, then the members are destroyed.
DestructorEnd ==
  /\ phase = "joining" /\ Free /\ UNCHANGED ops
  /\ \A w \in Workers : wpc[w] = "done"
  /\ \E order \in Perms(DOMAIN cache) :
       \E m \in {sync(flushAll(Me, order))} :
         /\ orig_search' = SearchAll(m)
         /\ Set(Blank(m.wal_file))
  /\ phase' = "down"
  /\ last_op' = Op("destroyed", 0, 0, <<>>)
  /\ UNCHANGED <<wpc, expected, wal_base, restarts, stored>>

\* -------------------------------------------------------- writer threads
Quiet ==
  UNCHANGED <<phase, wal_base, last_op, expected, orig_search, ops, restarts, stored, script>>

WorkerGetBatch(w) ==
  /\ wpc[w] = "idle"
  /\ write_queue # <<>>
  /\ Set([getBatch(Me, w) EXCEPT !.events = events])
  /\ wpc' = [wpc EXCEPT ![w] = "store"]
  /\ Quiet

\* processBatch, first half: storePage of the request at the head of the batch.
WorkerStore(w) ==
  /\ wpc[w] = "store"
  /\ Set([storePage(Me, heap[Head(batch[w]).page]).m EXCEPT !.events = events])
  /\ wpc' = [wpc EXCEPT ![w] = "clear"]
  /\ Quiet

\* processBatch, second half: clearDirtyFlag, then on to the next request.
WorkerClear(w) ==
  /\ wpc[w] = "clear"
  /\ Set([clearDirtyFlag(Me, Head(batch[w]).page_id)
            EXCEPT !.batch[w] = Tail(@), !.events = events])
  /\ wpc' = [wpc EXCEPT ![w] = IF Len(batch[w]) > 1 THEN "store" ELSE "idle"]
  /\ Quiet

WorkerExit_nodrain(w) ==
  /\ wpc[w] = "idle"
  /\ ~running
  /\ wpc' = [wpc EXCEPT ![w] = "done"]
  /\ UNCHANGED <<heap, content_map, page_to_hash, next_page_id, cache, lru_order,
                 max_cache_size, write_queue, max_queue_size, running, batch,
                 wal_file, write_buffer, next_lsn, next_transaction_id,
                 last_checkpoint_lsn, buffer_size_limit, root, current_transaction,
                 checkpointer, scheduler, slotted, storing, events, appended, thrown>>
  /\ Quiet

WorkerExit(w) ==
  /\ wpc[w] = "idle"
  /\ ~running
  /\ write_queue = <<>>
  /\ wpc' = [wpc EXCEPT ![w] = "done"]
  /\ UNCHANGED <<heap, content_map, page_to_hash, next_page_id, cache, lru_order,
                 max_cache_size, write_queue, max_queue_size, running, batch,
                 wal_file, write_buffer, next_lsn, next_transaction_id,
                 last_checkpoint_lsn, buffer_size_limit, root, current_transaction,
                 checkpointer, scheduler, slotted, storing, events, appended, thrown>>
  /\ Quiet

\* ------------------------------------------------------------ the engine
Start(m, todo, exp) ==
  /\ heap = m.heap
  /\ content_map = m.content_map
  /\ page_to_hash = m.page_to_hash
  /\ next_page_id = m.next_page_id
  /\ cache = m.cache
  /\ lru_order = m.lru_order
  /\ max_cache_size = m.max_cache_size
  /\ write_queue = m.write_queue
  /\ max_queue_size = m.max_queue_size
  /\ running = m.running
  /\ batch = m.batch
  /\ wal_file = m.wal_file
  /\ write_buffer = m.write_buffer
  /\ next_lsn = m.next_lsn
  /\ next_transaction_id = m.next_transaction_id
  /\ last_checkpoint_lsn = m.last_checkpoint_lsn
  /\ buffer_size_limit = m.buffer_size_limit
  /\ root = m.root
  /\ current_transaction = m.current_transaction
  /\ checkpointer = m.checkpointer
  /\ slotted = m.slotted
  /\ storing = m.storing
  /\ scheduler = m.scheduler
  /\ events = <<>>
  /\ appended = <<>>
  /\ thrown = FALSE
  /\ wpc = [w \in Workers |-> "idle"]
  /\ phase = "up"
  /\ wal_base = Len(m.wal_file)
  /\ last_op = NoOp
  /\ expected = exp
  /\ orig_search = [k \in Keys |-> <<>>]
  /\ ops = 0
  /\ restarts = 0
  /\ stored = {}
  /\ script = todo

Init == Start(Release(BTreeCtor(<<>>, 0)), <<>>, NoExpectation)

\* The engine in operation: one client thread and the writer threads.
Next ==
  \/ \E k \in Keys, v \in Values : Insert(k, v)
  \/ \E k \in Keys : Delete(k)
  \/ \E k \in Keys : Search(k)
  \/ BeginTransaction
  \/ CommitTransaction
  \/ AbortTransaction
  \/ Flush
  \/ \E w \in Workers : WorkerGetBatch(w)
  \/ \E w \in Workers : WorkerStore(w)
  \/ \E w \in Workers : WorkerClear(w)

Spec == Init /\ [][Next]_vars

\* The whole life of the process: operation, shutdown or crash, restart and
\* replay of the log.
NextRecovery ==
  \/ \E k \in Keys, v \in Values : Insert(k, v)
  \/ \E k \in Keys : Delete(k)
  \/ \E k \in Keys : Search(k)
  \/ CommitTransaction
  \/ Crash
  \/ Restart
  \/ Replay
  \/ DestructorBegin
  \/ DestructorEnd
  \/ \E w \in Workers : WorkerGetBatch(w)
  \/ \E w \in Workers : WorkerStore(w)
  \/ \E w \in Workers : WorkerClear(w)
  \/ \E w \in Workers : WorkerExit(w)

SpecRecovery == Init /\ [][NextRecovery]_vars

\* ------------------------------------------------- the scripted client
\* A client that issues a fixed list of calls, each one once the writer
\* threads have caught up with the one before.
Ins(k, v) == [op |-> "insert", key |-> k, val |-> v]

Sea(k) == [op |-> "search", key |-> k, val |-> 0]

Do(name) == [op |-> name, key |-> 0, val |-> 0]

\* M = 3, keys 1, 2, 3, 4 inserted in order.
SplitScript == <<Ins(1, 1), Ins(2, 2), Ins(3, 3), Ins(4, 4), Sea(3)>>

\* (1,a), (2,b) made durable by a commit, (3,c) still in the WAL buffer
\* when the process dies.
CrashScript ==
  <<Ins(1, 1), Ins(2, 2), Do("commit"), Ins(3, 3), Do("crash"), Do("restart"),
    Do("replay"), Sea(1), Sea(2), Sea(3)>>

\* (1,a) logged and aborted, (2,b) logged and committed: the commit
\* flushes all four records to the file before the process dies.
AbortScript ==
  <<Ins(1, 1), Do("abort"), Ins(2, 2), Do("commit"), Do("crash"), Do("restart"),
    Do("replay")>>

\* Two inserts made durable by a commit; the file is damaged before the
\* next process reads it.
CorruptScript ==
  <<Ins(1, 1), Ins(2, 2), Do("commit"), Do("crash"), Do("corrupt"), Do("restart"),
    Do("replay")>>

CaughtUp == write_queue = <<>> /\ \A w \in Workers : wpc[w] \in {"idle", "done"}

ClientStep ==
  /\ script # <<>>
  /\ CaughtUp
  /\ \E u \in Undefs : Call(Head(script), u)
  /\ script' = Tail(script)
  /\ UNCHANGED ops

InitScenario ==
  \E todo \in {SplitScript, CrashScript, AbortScript, CorruptScript} :
    Start(Release(BTreeCtor(<<>>, 0)), todo, NoExpectation)

NextScenario ==
  \/ ClientStep
  \/ \E w \in Workers : WorkerGetBatch(w)
  \/ \E w \in Workers : WorkerStore(w)
  \/ \E w \in Workers : WorkerClear(w)

SpecScenario == InitScenario /\ [][NextScenario]_vars

\* ---------------------------------------------- WALManager on its own
\* A caller of the WALManager API; `current_transaction` is the id it got
\* from beginTransaction, `expected` what the log held at its last commit.
WalLimits == {SizeofHeader, 2 * SizeofDataRecord, TreeWalBuffer}

NothingCommitted == [from |-> 0, recs |-> <<>>]

WalCall ==
  /\ ops < MaxWalOps
  /\ ops' = ops + 1
  /\ UNCHANGED <<wpc, phase, orig_search, stored, script>>

WalBegin ==
  /\ WalCall
  /\ LET b == beginTransaction(Me)
     IN /\ Set([b.m EXCEPT !.current_transaction = b.r])
        /\ last_op' = Op("begin", 0, b.r, <<>>)
  /\ UNCHANGED <<expected, wal_base, restarts>>

WalLogInsert(k, v) ==
  /\ WalCall
  /\ current_transaction # 0
  /\ \E u \in Undefs :
       LET l == logInsert(Me, current_transaction, 1, k, <<v>>, u.pad)
       IN Set(l.m) /\ last_op' = Op("logInsert", k, v, <<l.r>>)
  /\ UNCHANGED <<expected, wal_base, restarts>>

WalLogDelete(k) ==
  /\ WalCall
  /\ current_transaction # 0
  /\ \E u \in Undefs :
       LET l == logDelete(Me, current_transaction, 1, k, <<>>, u.pad)
       IN Set(l.m) /\ last_op' = Op("logDelete", k, 0, <<l.r>>)
  /\ UNCHANGED <<expected, wal_base, restarts>>

WalCommit ==
  /\ WalCall
  /\ current_transaction # 0
  /\ LET m == commitTransaction(Me, current_transaction)
     IN /\ Set([m EXCEPT !.current_transaction = 0])
        /\ expected' = [from |-> wal_base, recs |-> m.appended]
  /\ last_op' = Op("commit", 0, current_transaction, <<>>)
  /\ UNCHANGED <<wal_base, restarts>>

WalAbort ==
  /\ WalCall
  /\ current_transaction # 0
  /\ Set([abortTransaction(Me, current_transaction) EXCEPT !.current_transaction = 0])
  /\ last_op' = Op("abort", 0, current_transaction, <<>>)
  /\ UNCHANGED <<expected, wal_base, restarts>>

WalCheckpoint ==
  /\ WalCall
  /\ LET c == writeCheckpoint(Me)
     IN Set(c.m) /\ last_op' = Op("checkpoint", 0, 0, <<c.r>>)
  /\ UNCHANGED <<expected, wal_base, restarts>>

WalSync ==
  /\ WalCall
  /\ Set(sync(Me))
  /\ last_op' = Op("sync", 0, 0, <<>>)
  /\ UNCHANGED <<expected, wal_base, restarts>>

WalTruncate(up_to_lsn) ==
  /\ WalCall
  /\ Set(truncate(Me, up_to_lsn))
  /\ last_op' = Op("truncate", up_to_lsn, 0, <<>>)
  /\ UNCHANGED <<expected, wal_base, restarts>>

\* The process dies and a new one constructs a WALManager on the same file.
WalReopen ==
  /\ restarts < MaxRestarts
  /\ restarts' = restarts + 1
  /\ Set(WALManager(Blank(wal_file), buffer_size_limit))
  /\ wal_base' = Len(wal_file)
  /\ last_op' = Op("reopen", 0, 0, <<>>)
  /\ UNCHANGED <<wpc, phase, orig_search, stored, script, expected, ops>>

InitWAL ==
  \E limit \in WalLimits :
    Start(WALManager(Blank(<<>>), limit), <<>>, NothingCommitted)

NextWAL ==
  \/ WalBegin
  \/ \E k \in Keys, v \in Values : WalLogInsert(k, v)
  \/ \E k \in Keys : WalLogDelete(k)
  \/ WalCommit
  \/ WalAbort
  \/ WalCheckpoint
  \/ WalSync
  \/ \E up_to_lsn \in 1..next_lsn : WalTruncate(up_to_lsn)
  \/ WalReopen

SpecWAL == InitWAL /\ [][NextWAL]_vars

\* ------------------------------- PageCache and ContentStorage on their own
\* A caller of putPage / getPage / storePage; `expected` is, per page id,
\* the content last passed to putPage.
CacheSizes == 1..MaxCacheSize

PageIds == 1..MaxId

\* The pages handed to the store and the cache: 0 is the leaf without keys,
\* 1..MaxKey a leaf with one key and its value, MaxKey + 1 an internal page
\* without keys that has one child.
Contents == 0..(MaxKey + 1)

PageOf(c, pid) ==
  IF c = 0 THEN createPage(TRUE, pid)
  ELSE IF c = MaxKey + 1 THEN [createPage(FALSE, pid) EXCEPT !.children = <<1>>]
  ELSE [createPage(TRUE, pid) EXCEPT !.keys = <<c>>, !.data = <<c>>]

Content(page) ==
  [is_leaf |-> page.is_leaf, keys |-> page.keys, children |-> page.children,
   data |-> page.data]

NothingPut == [id \in PageIds |-> [st |-> "none", val |-> 0]]

CacheCall ==
  /\ ops < MaxCacheOps
  /\ ops' = ops + 1
  /\ UNCHANGED <<wpc, phase, wal_base, orig_search, restarts, script>>

CasStore(c) ==
  /\ CacheCall
  /\ \E u \in Undefs :
       LET s == storePage(Me, PageOf(c, u.pid))
       IN /\ Set(s.m)
          /\ last_op' = Op("store", 0, c, <<s.r>>)
          /\ stored' = stored \cup {[content |-> c, id |-> s.r]}
  /\ UNCHANGED expected

CachePut(id, c) ==
  /\ CacheCall
  /\ LET a == make_shared(Me, PageOf(c, id))
     IN Set(putPage(a.m, id, a.r))
  /\ last_op' = Op("put", id, c, <<>>)
  /\ expected' = Mark(id, "put", c)
  /\ UNCHANGED stored

CacheGet(id) ==
  /\ LET g == getPage(Me, id)
     IN /\ Set(g.m)
        /\ last_op' = Op("get", id, 0,
                         IF g.r = Null THEN <<>> ELSE <<Content(g.m.heap[g.r])>>)
  /\ UNCHANGED <<wpc, phase, wal_base, orig_search, restarts, script, ops,
                 expected, stored>>

InitCache ==
  \E size \in CacheSizes :
    Start([Blank(<<>>) EXCEPT !.max_cache_size = size], <<>>, NothingPut)

NextCache ==
  \/ \E c \in Contents : CasStore(c)
  \/ \E id \in PageIds, c \in Contents : CachePut(id, c)
  \/ \E id \in PageIds : CacheGet(id)

SpecCache == InitCache /\ [][NextCache]_vars

\* ------------------------------ WriterQueue over a PageCache on their own
\* A caller that puts a page into the cache and enqueues its write, the way
\* the tree does, next to the writer threads; `expected` is, per page id,
\* the content last put and whether its enqueueWrite was accepted.
QueueSizes == 1..MaxQueue

QueueCall ==
  /\ ops < MaxQueueOps
  /\ ops' = ops + 1
  /\ UNCHANGED <<wpc, phase, wal_base, orig_search, restarts, script, stored>>

\* page_cache.putPage(id, make_shared(page));
\* writer_queue.enqueueWrite(id, make_shared(page))
QueuePut(id, c) ==
  /\ QueueCall
  /\ \E a \in {make_shared(putShared(Me, id, PageOf(c, id)), PageOf(c, id))} :
       \E e \in {enqueueWrite(a.m, id, a.r)} :
         /\ Set(e.m)
         /\ last_op' = Op("enqueue", id, c, <<e.r>>)
         /\ expected' = Mark(id, IF e.r THEN "queued" ELSE "dropped", c)

\* page_cache.flushAll(); the history keeps how many flushAll calls came in
\* a row and the count `flushed` the call prints.
QueueFlush ==
  /\ QueueCall
  /\ \E order \in Perms(DOMAIN cache) : Set(flushAll(Me, order))
  /\ last_op' = Op("flushAll", 0, IF last_op.op = "flushAll" THEN last_op.val + 1 ELSE 1,
                   <<Cardinality({id \in DOMAIN cache : cache[id].is_dirty})>>)
  /\ UNCHANGED expected

\* checkpoint_manager.performCheckpoint()
QueueCheckpoint ==
  /\ QueueCall
  /\ \E order \in Perms(DOMAIN cache) : Set(performCheckpoint(Me, order))
  /\ last_op' = Op("checkpoint", 0, IF last_op.op = "checkpoint" THEN last_op.val + 1 ELSE 1,
                   <<Cardinality({id \in DOMAIN cache : cache[id].is_dirty})>>)
  /\ UNCHANGED expected

InitQueue ==
  \E size \in CacheSizes, q \in QueueSizes :
    Start(WALManager([Blank(<<>>) EXCEPT !.max_cache_size = size, !.max_queue_size = q,
                                        !.running = TRUE],
                     TreeWalBuffer),
          <<>>, NothingPut)

NextQueue ==
  \/ \E id \in PageIds, c \in 0..MaxKey : QueuePut(id, c)
  \/ QueueFlush
  \/ QueueCheckpoint
  \/ \E w \in Workers : WorkerGetBatch(w)
  \/ \E w \in Workers : WorkerStore(w)
  \/ \E w \in Workers : WorkerClear(w)

SpecQueue == InitQueue /\ [][NextQueue]_vars

\* ---------------------------------------------------------- JobScheduler
\* JobScheduler::JobScheduler. `jobs` holds the Job objects by job_id, each
\* with the address make_shared gave it; job_queue, active_jobs and
\* completed_jobs hold ids of those objects. `worker` is the position of
\* each worker thread and the job it holds, `caller` that of the thread
\* calling scheduleJob and stop, `now` the reading of steady_clock.
JobScheduler(num_threads) ==
  [num_workers |-> num_threads, running |-> FALSE, next_job_id |-> 1,
   total_jobs_executed |-> 0, failed_jobs |-> 0, successful_jobs |-> 0,
   jobs |-> <<>>, job_queue |-> {}, active_jobs |-> {}, completed_jobs |-> {},
   worker |-> [w \in 1..num_threads |-> [pc |-> "none", job |-> 0]],
   caller |-> [pc |-> "idle", job |-> 0], now |-> 0, terminated |-> FALSE]

\* The priorities the callers pass: NORMAL = 1 and HIGH = 2 of the enum
\* LOW = 0 .. CRITICAL = 3.
JobPriority == {1, 2}

\* What a job function does when called: return true, return false, throw
\* a std::exception, throw something else.
JobFuncs == {"true", "false", "throws", "throws_other"}

\* job_queue.top(): std::priority_queue<std::shared_ptr<Job>> orders its
\* elements with std::less<std::shared_ptr<Job>>, which compares the
\* pointers; Job::operator< is never used.
top(s) ==
  CHOOSE j \in s.job_queue : \A k \in s.job_queue : s.jobs[k].addr <= s.jobs[j].addr

\* A step of a thread of the scheduler; the process is gone once a thread
\* has called std::terminate.
JobStep(s) ==
  /\ ~scheduler.terminated
  /\ Set([Me EXCEPT !.scheduler = s, !.events = events])
  /\ UNCHANGED wpc
  /\ Quiet

\* queue_mutex is held by a worker between its test of the wait predicate
\* and the moment it blocks in queue_cv.wait.
QueueMutexFree == \A w \in DOMAIN scheduler.worker : scheduler.worker[w].pc # "towait"

\* start(): running is set and the worker threads are created.
JobStart ==
  /\ scheduler.caller.pc = "idle"
  /\ ~scheduler.running
  /\ \A w \in DOMAIN scheduler.worker : scheduler.worker[w].pc = "none"
  /\ JobStep([scheduler EXCEPT
               !.running = TRUE,
               !.worker = [w \in DOMAIN @ |-> [pc |-> "loop", job |-> 0]]])

\* scheduleJob up to the push: the Job object is made (at an address no
\* live Job has) and pushed under queue_mutex.
JobPush(priority, delay, func) ==
  /\ scheduler.caller.pc = "idle"
  /\ scheduler.next_job_id <= MaxJobs
  /\ QueueMutexFree
  /\ \E addr \in (1..MaxJobs) \ {scheduler.jobs[j].addr : j \in DOMAIN scheduler.jobs} :
       JobStep([scheduler EXCEPT
                  !.next_job_id = @ + 1,
                  !.jobs = Append(@, [job_id |-> scheduler.next_job_id,
                                      priority |-> priority, status |-> "PENDING",
                                      scheduled_at |-> scheduler.now + delay,
                                      execute_func |-> func, addr |-> addr]),
                  !.job_queue = @ \cup {scheduler.next_job_id},
                  !.caller = [pc |-> "track", job |-> scheduler.next_job_id]])

\* The rest of scheduleJob: active_jobs[job_id] = job under jobs_mutex, then
\* queue_cv.notify_one(), which wakes one of the blocked workers if any.
JobTrack ==
  /\ scheduler.caller.pc = "track"
  /\ LET blocked == {w \in DOMAIN scheduler.worker : scheduler.worker[w].pc = "blocked"}
         tracked == [scheduler EXCEPT !.active_jobs = @ \cup {scheduler.caller.job},
                                      !.caller = [pc |-> "idle", job |-> 0]]
     IN IF blocked = {} THEN JobStep(tracked)
        ELSE \E w \in blocked : JobStep([tracked EXCEPT !.worker[w].pc = "pred"])

\* workerThread: `while (running.load())`.
JobLoop(w) ==
  /\ scheduler.worker[w].pc = "loop"
  /\ JobStep([scheduler EXCEPT
               !.worker[w].pc = IF scheduler.running THEN "pred" ELSE "done"])

JobNext_nopop(w) ==
  /\ scheduler.worker[w].pc = "pred"
  /\ QueueMutexFree
  /\ JobStep(IF scheduler.job_queue = {} /\ scheduler.running
             THEN [scheduler EXCEPT !.worker[w].pc = "towait"]
             ELSE IF scheduler.job_queue = {}
             THEN [scheduler EXCEPT !.worker[w].pc = "done"]
             ELSE [scheduler EXCEPT
                     !.jobs[top(scheduler)].status = "RUNNING",
                     !.worker[w] = [pc |-> "run", job |-> top(scheduler)]])

\* workerThread under queue_mutex, from the test of the wait predicate: the
\* thread is about to wait, or leaves the loop, or looks at the top of the
\* queue and either goes round again (not due) or pops it.
JobNext(w) ==
  /\ scheduler.worker[w].pc = "pred"
  /\ QueueMutexFree
  /\ JobStep(IF scheduler.job_queue = {} /\ scheduler.running
             THEN [scheduler EXCEPT !.worker[w].pc = "towait"]
             ELSE IF scheduler.job_queue = {}
             THEN [scheduler EXCEPT !.worker[w].pc = "done"]
             ELSE IF scheduler.jobs[top(scheduler)].scheduled_at > scheduler.now
             THEN [scheduler EXCEPT !.worker[w].pc = "loop"]
             ELSE [scheduler EXCEPT
                     !.job_queue = @ \ {top(scheduler)},
                     !.jobs[top(scheduler)].status = "RUNNING",
                     !.worker[w] = [pc |-> "run", job |-> top(scheduler)]])

\* queue_cv.wait releases queue_mutex and blocks the thread.
JobBlock(w) ==
  /\ scheduler.worker[w].pc = "towait"
  /\ JobStep([scheduler EXCEPT !.worker[w].pc = "blocked"])

\* executeJob up to total_jobs_executed: the function is called; anything
\* thrown that is no std::exception leaves the thread and ends the process.
executeJob(s, w) ==
  LET job == s.worker[w].job
      func == s.jobs[job].execute_func
  IN IF func = "throws_other"
     THEN [s EXCEPT !.terminated = TRUE, !.worker[w].pc = "terminate"]
     ELSE [s EXCEPT
             !.jobs[job].status = IF func = "true" THEN "COMPLETED" ELSE "FAILED",
             !.successful_jobs = IF func = "true" THEN @ + 1 ELSE @,
             !.failed_jobs = IF func = "true" THEN @ ELSE @ + 1,
             !.total_jobs_executed = @ + 1,
             !.worker[w].pc = "retire"]

JobRun(w) ==
  /\ scheduler.worker[w].pc = "run"
  /\ JobStep(executeJob(scheduler, w))

\* The end of executeJob, under jobs_mutex: the job moves from active_jobs
\* to completed_jobs.
JobRetire(w) ==
  /\ scheduler.worker[w].pc = "retire"
  /\ JobStep([scheduler EXCEPT
               !.active_jobs = @ \ {scheduler.worker[w].job},
               !.completed_jobs = @ \cup {scheduler.worker[w].job},
               !.worker[w] = [pc |-> "loop", job |-> 0]])

\* stop(): running.store(false), with no mutex held.
JobStopSignal ==
  /\ scheduler.caller.pc = "idle"
  /\ scheduler.running
  /\ JobStep([scheduler EXCEPT !.running = FALSE, !.caller.pc = "notify"])

\* stop(): queue_cv.notify_all() wakes the workers that are blocked.
JobStopNotify ==
  /\ scheduler.caller.pc = "notify"
  /\ JobStep([scheduler EXCEPT
               !.caller.pc = "join",
               !.worker = [w \in DOMAIN @ |->
                             IF @[w].pc = "blocked" THEN [@[w] EXCEPT !.pc = "pred"]
                             ELSE @[w]]])

\* stop(): every thread has been joined.
JobStopJoin ==
  /\ scheduler.caller.pc = "join"
  /\ \A w \in DOMAIN scheduler.worker : scheduler.worker[w].pc = "done"
  /\ JobStep([scheduler EXCEPT !.caller.pc = "stopped"])

\* steady_clock moves on.
JobTick ==
  /\ scheduler.now < MaxNow
  /\ JobStep([scheduler EXCEPT !.now = @ + 1])

InitJobs ==
  Start([Blank(<<>>) EXCEPT !.scheduler = JobScheduler(NumJobWorkers)], <<>>, NoExpectation)

NextJobs ==
  \/ JobStart
  \/ \E priority \in JobPriority, delay \in 0..MaxNow, func \in JobFuncs :
       JobPush(priority, delay, func)
  \/ JobTrack
  \/ \E w \in 1..NumJobWorkers : JobLoop(w)
  \/ \E w \in 1..NumJobWorkers : JobNext(w)
  \/ \E w \in 1..NumJobWorkers : JobBlock(w)
  \/ \E w \in 1..NumJobWorkers : JobRun(w)
  \/ \E w \in 1..NumJobWorkers : JobRetire(w)
  \/ JobStopSignal
  \/ JobStopNotify
  \/ JobStopJoin
  \/ JobTick

SpecJobs == InitJobs /\ [][NextJobs]_vars

\* The scheduler with threads that keep running: a worker that can take a
\* step eventually takes it, and so does the thread inside stop().
JobWorkerStep(w) ==
  JobLoop(w) \/ JobNext(w) \/ JobBlock(w) \/ JobRun(w) \/ JobRetire(w)

\* The scheduler given job functions that return.
NextJobsFair ==
  \/ JobStart
  \/ \E priority \in JobPriority, func \in {"true", "false"} : JobPush(priority, 0, func)
  \/ JobTrack
  \/ \E w \in 1..NumJobWorkers : JobWorkerStep(w)
  \/ JobStopSignal
  \/ JobStopNotify
  \/ JobStopJoin

SpecJobsFair ==
  /\ InitJobs /\ [][NextJobsFair]_vars
  /\ \A w \in 1..NumJobWorkers : WF_vars(JobWorkerStep(w))
  /\ WF_vars(JobStopNotify \/ JobStopJoin)

\* ---------------------------------------------------------- page manager
\* compute_sha256_page_management: SHA-256 is taken as free of collisions,
\* so the digest is the bytes hashed behind a marker that no empty string
\* carries.
compute_sha256_page_management(data) == <<0>> \o data

updatePageChecksum(page) ==
  [page EXCEPT !.header.checksum = compute_sha256_page_management(page.data)]

\* insertRecord(page, record); uint16_t arithmetic.
insertRecord(page, record) ==
  LET len == Len(record)
      slot == [id |-> page.header.num_slots, offset |-> page.header.free_space_offset,
               length |-> len, is_deleted |-> FALSE]
  IN IF page.header.free_space_size < len + SizeofSlotEntry
     THEN [p |-> page, r |-> FALSE]
     ELSE [p |-> updatePageChecksum(
                   [page EXCEPT !.slot_directory = Append(@, slot),
                                !.header.num_slots = (@ + 1) % UINT16,
                                !.header.free_space_size = @ - (len + SizeofSlotEntry),
                                !.header.free_space_offset = (@ + len) % UINT16,
                                !.data = @ \o record]),
           r |-> TRUE]

\* deleteRecord(page, slot_id): the slot is marked, nothing else is touched.
deleteRecord(page, slot_id) ==
  IF slot_id >= page.header.num_slots
  THEN [p |-> page, r |-> FALSE]
  ELSE [p |-> [page EXCEPT !.slot_directory[slot_id + 1].is_deleted = TRUE],
        r |-> TRUE]

\* deleteRecord(page): the slots marked are dropped and the data compacted.
\* free_space_offset is left as it is, so a slot inserted after a
\* compaction has an offset past the end of data; `u` is the byte such a
\* read of page->data[slot.offset + i] yields.
RECURSIVE compact(_, _, _, _)
compact(page, slots, done, u) ==
  IF slots = <<>> THEN done
  ELSE LET slot == Head(slots)
           byte(i) == IF slot.offset + i \in DOMAIN page.data
                      THEN page.data[slot.offset + i] ELSE u
       IN IF slot.is_deleted
          THEN compact(page, Tail(slots),
                       [done EXCEPT !.header.num_slots = (@ + UINT16 - 1) % UINT16,
                                    !.header.free_space_size =
                                      (@ + SizeofSlotEntry + slot.length) % UINT16],
                       u)
          ELSE compact(page, Tail(slots),
                       [done EXCEPT !.slot_directory =
                                      Append(@, [slot EXCEPT !.offset = Len(done.data)]),
                                    !.data = @ \o [i \in 1..slot.length |-> byte(i)]],
                       u)

deleteRecords(page, u) ==
  [p |-> updatePageChecksum(
           compact(page, page.slot_directory,
                   [page EXCEPT !.slot_directory = <<>>, !.data = <<>>], u)),
   r |-> TRUE]

\* The page of the page manager tests: PageHeader{1, 0, 0, free, "", 0}
\* with no slot and no data.
SlottedPage(free) ==
  [header |-> [page_id |-> 1, num_slots |-> 0, free_space_offset |-> 0,
               free_space_size |-> free, checksum |-> EmptyString, flags |-> 0],
   slot_directory |-> <<>>, data |-> <<>>]

\* Room for one record of two bytes, as in the tests, or for two.
FreeSpaces == {SizeofSlotEntry + 2, 2 * (SizeofSlotEntry + 2)}

\* The records of the tests: the bytes 24 and 48.
Records == {<<24>>, <<48>>, <<24, 48>>}

PageCall(name, arg, c) ==
  /\ ops < MaxPageOps
  /\ ops' = ops + 1
  /\ Set([Me EXCEPT !.slotted = c.p, !.events = events])
  /\ last_op' = Op(name, arg, c.r, <<>>)
  /\ UNCHANGED <<wpc, phase, wal_base, expected, orig_search, restarts, stored, script>>

InitPages ==
  \E free \in FreeSpaces :
    Start([Blank(<<>>) EXCEPT !.slotted = SlottedPage(free)], <<>>, NoExpectation)

NextPages ==
  \/ \E record \in Records :
       PageCall("insertRecord", record, insertRecord(slotted, record))
  \/ \E slot_id \in 0..2 :
       PageCall("deleteRecord", slot_id, deleteRecord(slotted, slot_id))
  \/ \E u \in 0..MaxPad :
       PageCall("deleteRecords", 0, deleteRecords(slotted, u))

SpecPages == InitPages /\ [][NextPages]_vars

\* ------------------------------------------- ContentStorage, two threads
\* ContentStorage has no mutex. The writer threads call storePage from
\* processBatch with no lock held, so two calls run statement by statement
\* against each other; each step below is one statement of storePage, and
\* next_page_id++ on a plain uint16_t is a load and a store.
StoreStep(w, loc, m) ==
  /\ Set([m EXCEPT !.storing[w] = loc, !.events = events])
  /\ UNCHANGED <<wpc, phase, wal_base, last_op, expected, orig_search, restarts, script>>

\* Lines 25-36: the copy, its hash, the lookup; an existing id is returned.
StoreLookup(w, c) ==
  /\ storing[w].pc = "idle"
  /\ ops < MaxStoreOps
  /\ ops' = ops + 1
  /\ LET page_copy == updateContentHash(PageOf(c, 0))
         h == page_copy.content_hash
     IN IF h \in DOMAIN content_map
        THEN /\ StoreStep(w, [pc |-> "idle"], Me)
             /\ stored' = stored \cup {[content |-> c, id |-> heap[content_map[h]].page_id]}
        ELSE /\ StoreStep(w, [pc |-> "load", content |-> c, page_copy |-> page_copy], Me)
             /\ UNCHANGED stored

\* Line 39, the load of next_page_id.
StoreLoad(w) ==
  /\ storing[w].pc = "load"
  /\ StoreStep(w, [storing[w] EXCEPT !.pc = "inc",
                                     !.page_copy.page_id = next_page_id], Me)
  /\ UNCHANGED <<ops, stored>>

\* Line 39, the store of the incremented value.
StoreInc(w) ==
  /\ storing[w].pc = "inc"
  /\ StoreStep(w, [storing[w] EXCEPT !.pc = "hash"],
               [Me EXCEPT !.next_page_id = (storing[w].page_copy.page_id + 1) % UINT16])
  /\ UNCHANGED <<ops, stored>>

\* Line 40.
StoreHash(w) ==
  /\ storing[w].pc = "hash"
  /\ StoreStep(w, [storing[w] EXCEPT !.pc = "blob"],
               [Me EXCEPT !.page_to_hash = Put(@, storing[w].page_copy.page_id,
                                               storing[w].page_copy.content_hash)])
  /\ UNCHANGED <<ops, stored>>

\* Lines 41-45: the blob is filed and the id returned.
StoreBlob(w) ==
  /\ storing[w].pc = "blob"
  /\ LET a == make_shared(Me, storing[w].page_copy)
     IN StoreStep(w, [pc |-> "idle"],
                  [a.m EXCEPT !.content_map = Put(@, storing[w].page_copy.content_hash, a.r)])
  /\ stored' = stored \cup {[content |-> storing[w].content,
                             id |-> storing[w].page_copy.page_id]}
  /\ UNCHANGED ops

InitStore == Start(Blank(<<>>), <<>>, NothingPut)

NextStore ==
  \/ \E w \in Workers, c \in 1..MaxKey : StoreLookup(w, c)
  \/ \E w \in Workers : StoreLoad(w)
  \/ \E w \in Workers : StoreInc(w)
  \/ \E w \in Workers : StoreHash(w)
  \/ \E w \in Workers : StoreBlob(w)

SpecStore == InitStore /\ [][NextStore]_vars

\* --------------------------------------------- ContentStorage, many ids
\* A client that stores many different pages. storeAll is the state after
\* the calls storePage(PageOf(c, _)) for c = first, first + 1, .., last in
\* this order, for contents of which none is stored yet and with ids left
\* below UINT16: each call misses the lookup, takes next_page_id and files
\* its blob at the next address.
storeAll(m, first, last) ==
  LET n == last - first + 1
      base == m.next_page_id
      h0 == Len(m.heap)
      blob(c) == [updateContentHash(PageOf(c, 0)) EXCEPT !.page_id = base + (c - first)]
  IN [m EXCEPT
        !.next_page_id = base + n,
        !.heap = [a \in 1..(h0 + n) |->
                    IF a <= h0 THEN m.heap[a] ELSE blob(first + (a - h0 - 1))],
        !.page_to_hash = [id \in (DOMAIN m.page_to_hash) \cup (base..(base + n - 1)) |->
                            IF id >= base THEN blob(first + (id - base)).content_hash
                            ELSE m.page_to_hash[id]],
        !.content_map = [h \in (DOMAIN m.content_map)
                                 \cup {blob(c).content_hash : c \in first..last} |->
                           IF h \in DOMAIN m.content_map THEN m.content_map[h]
                           ELSE h0 + (h.std_hash[1] - first + 1)]]

AllocCall ==
  /\ ops < MaxAllocOps
  /\ ops' = ops + 1
  /\ UNCHANGED <<wpc, phase, wal_base, expected, orig_search, restarts, script, stored>>

\* One storePage call; nothing is freed by it.
AllocStore(c) ==
  /\ AllocCall
  /\ \E s \in {storePage(Me, PageOf(c, 0))} :
       /\ Assign([s.m EXCEPT !.events = <<>>])
       /\ last_op' = Op("store", 0, c, <<s.r>>)

\* The client stores the contents MaxKey + 2 .. UINT16 + 1 first: ids
\* 1 .. UINT16 - 2 are taken and next_page_id is UINT16 - 1.
AllocFill ==
  /\ ops = 0
  /\ AllocCall
  /\ Assign(storeAll(Me, MaxKey + 2, UINT16 + 1))
  /\ last_op' = Op("fill", 0, MaxKey + 2, <<UINT16 + 1>>)

InitAlloc == Start(Blank(<<>>), <<>>, NothingPut)

NextAlloc ==
  \/ \E c \in 0..MaxKey : AllocStore(c)
  \/ AllocFill

SpecAlloc == InitAlloc /\ [][NextAlloc]_vars

\* ------------------------------------------- concurrent performCheckpoint
\* performCheckpoint takes no lock of its own: flushAll holds cache_mutex,
\* writeCheckpoint and sync hold wal_mutex, the LSN and the counter are
\* atomics. Each of these is one step of the calling thread `w`.
CheckpointStep(w, at, m) ==
  /\ checkpointer.caller[w].pc = at
  /\ Set([m EXCEPT !.events = events])
  /\ UNCHANGED <<wpc, ops>>
  /\ Quiet

\* page_cache->flushAll()
CheckpointFlush(w) ==
  /\ checkpointer.checkpoints_completed
       + Cardinality({x \in Checkpointers : checkpointer.caller[x].pc # "idle"})
       < MaxCheckpoints
  /\ \E order \in Perms(DOMAIN cache) :
       CheckpointStep(w, "idle",
                      [flushAll(Me, order) EXCEPT !.checkpointer.caller[w].pc = "flushed"])

\* uint64_t checkpoint_lsn = wal_manager->writeCheckpoint()
CheckpointWrite(w) ==
  \E c \in {writeCheckpoint(Me)} :
    CheckpointStep(w, "flushed",
                   [c.m EXCEPT !.checkpointer.caller[w] =
                                 [pc |-> "written", checkpoint_lsn |-> c.r]])

\* wal_manager->sync()
CheckpointSync(w) ==
  CheckpointStep(w, "written", [sync(Me) EXCEPT !.checkpointer.caller[w].pc = "synced"])

\* last_checkpoint_lsn.store(checkpoint_lsn); checkpoints_completed.fetch_add(1)
CheckpointStore(w) ==
  CheckpointStep(w, "synced",
                 [Me EXCEPT !.checkpointer.last_checkpoint_lsn =
                              checkpointer.caller[w].checkpoint_lsn,
                            !.checkpointer.checkpoints_completed = @ + 1,
                            !.checkpointer.caller[w] = NotCheckpointing])

InitCkpt == Start(Release(BTreeCtor(<<>>, 0)), <<>>, NoExpectation)

\* The tree's client inserting while checkpoint jobs run.
NextCkpt ==
  \/ \E k \in Keys : ops < MaxCkptInserts /\ Insert(k, MaxVal)
  \/ \E w \in Workers : WorkerGetBatch(w)
  \/ \E w \in Workers : WorkerStore(w)
  \/ \E w \in Workers : WorkerClear(w)
  \/ \E w \in Checkpointers : CheckpointFlush(w)
  \/ \E w \in Checkpointers : CheckpointWrite(w)
  \/ \E w \in Checkpointers : CheckpointSync(w)
  \/ \E w \in Checkpointers : CheckpointStore(w)

SpecCkpt == InitCkpt /\ [][NextCkpt]_vars

\* ------------------------------------------------ transactions of a tree
\* The calls of a client that inserts and groups its inserts itself.
TxnCalls == {Ins(1, 1), Do("begin"), Do("commit"), Do("abort")}

\* One tree from construction to destruction, its client issuing any
\* MaxTxnOps of these calls.
InitTxn ==
  \E todo \in [1..MaxTxnOps -> TxnCalls] :
    Start(Release(BTreeCtor(<<>>, 0)), todo, NoExpectation)

NextTxn ==
  \/ ClientStep
  \/ DestructorBegin
  \/ DestructorEnd
  \/ \E w \in Workers : WorkerGetBatch(w)
  \/ \E w \in Workers : WorkerStore(w)
  \/ \E w \in Workers : WorkerClear(w)
  \/ \E w \in Workers : WorkerExit(w)

SpecTxn == InitTxn /\ [][NextTxn]_vars

\* ------------------------------------------------------------ the claims
\* C1: a search(k) issued after insert(k, v), with no deleteKey(k) after
\* that insert, returns a non-null result equal to v.
C1_SearchReturnsInserted ==
  (last_op.op = "search" /\ expected[last_op.key].st = "ins")
    => last_op.res = <<expected[last_op.key].val>>

\* C2: a search(k) issued after deleteKey(k), with no insert(k, _) after
\* that delete, returns null.
C2_SearchAfterDelete ==
  (last_op.op = "search" /\ expected[last_op.key].st = "del") => last_op.res = <<>>

C2_Witness ==
  /\ last_op.op = "search"
  /\ expected[last_op.key].st = "del"
  /\ \E i \in DOMAIN appended :
       appended[i].type = "INSERT" /\ appended[i].key = last_op.key

\* What this WALManager has added to the file it opened.
Suffix == SubSeq(wal_file, wal_base + 1, Len(wal_file))

Increasing(recs) == \A i, j \in DOMAIN recs : i < j => recs[i].lsn < recs[j].lsn

\* C3: when commitTransaction(t) returns, the file holds every record
\* appended so far, in LSN order, ending with the COMMIT record of t, and
\* the write buffer is empty; what the file held at a commit stays in it,
\* whatever is called next and when the process dies.
C3_CommitDurable ==
  /\ last_op.op = "commit" =>
       /\ write_buffer = <<>>
       /\ Suffix = appended
       /\ Increasing(Suffix)
       /\ Suffix # <<>>
       /\ Last(Suffix) = Summed(HeaderRecord("COMMIT", last_op.val, next_lsn - 1))
  /\ expected.from + Len(expected.recs) <= Len(wal_file)
  /\ SubSeq(wal_file, expected.from + 1, expected.from + Len(expected.recs))
       = expected.recs

C3_Witness ==
  /\ last_op.op = "commit"
  /\ Len(appended) >= 3
  /\ \E i \in DOMAIN appended :
       appended[i].type = "INSERT" /\ appended[i].transaction_id = last_op.val

C5_CrashRecovery ==
  (restarts = 1 /\ last_op.op = "search")
    => last_op.res = (IF last_op.key \in {1, 2} THEN <<last_op.key>> ELSE <<>>)

C7_GetReturnsLastPut ==
  (last_op.op = "get" /\ expected[last_op.key].st = "put")
    => last_op.res = <<Content(PageOf(expected[last_op.key].val, last_op.key))>>

\* The blobs of the content store, by hash.
Blobs == [h \in DOMAIN content_map |-> heap[content_map[h]]]

\* C8: a storePage of content that was stored before returns the id it
\* returned then, adds no blob and allocates no id.
C8_Dedup ==
  [][(last_op'.op = "store" /\ ops' = ops + 1) =>
       \A s \in stored :
         s.content = last_op'.val =>
           /\ last_op'.res = <<s.id>>
           /\ Blobs' = Blobs
           /\ page_to_hash' = page_to_hash
           /\ next_page_id' = next_page_id]_vars

C8_Witness ==
  /\ last_op.op = "store"
  /\ ops = 2
  /\ Cardinality(stored) = 1
  /\ expected = NothingPut

C10_LeafSplit ==
  (restarts = 0 /\ script = <<>> /\ last_op.op = "search" /\ last_op.key = 3) =>
    /\ last_op.res = <<3>>
    /\ root # Null
    /\ ~heap[root].is_leaf
    /\ heap[root].keys = <<2>>
    /\ Len(heap[root].children) = 2
    /\ LET left == getPage(Me, heap[root].children[1]).r
           right == getPage(Me, heap[root].children[2]).r
       IN /\ left # Null /\ heap[left].is_leaf /\ heap[left].keys = <<1, 2>>
          /\ right # Null /\ heap[right].is_leaf /\ heap[right].keys = <<3, 4>>

\* C12: the records of the WAL file carry strictly increasing (hence
\* distinct) LSNs in file order, also when part of the file was written by
\* an earlier WALManager on the same path.
C12_LsnStrictlyIncreasing == Increasing(wal_file)

\* C20: after every getPage and putPage the cache holds at most
\* max_cache_size entries.
C20_CacheWithinCap == Cardinality(DOMAIN cache) <= max_cache_size

C20_Witness ==
  /\ last_op.op = "put"
  /\ last_op.key \in DOMAIN cache
  /\ Cardinality(DOMAIN cache) = max_cache_size
  /\ \E id \in PageIds : expected[id].st = "put" /\ id \notin DOMAIN cache

\* The hash ContentStorage files the content c of page id under.
HashOf(c, id) == updateContentHash(PageOf(c, id)).content_hash

\* C15: a page whose enqueueWrite was refused stays dirty in the cache until
\* its content is in the content store.
C15_DroppedStaysDirty ==
  \A id \in PageIds :
    expected[id].st = "dropped" =>
      \/ HashOf(expected[id].val, id) \in DOMAIN content_map
      \/ id \in DOMAIN cache /\ cache[id].is_dirty

\* The write requests of the queue, front first, by page id and content.
QueueView ==
  [i \in DOMAIN write_queue |->
     [page_id |-> write_queue[i].page_id, content |-> Content(heap[write_queue[i].page])]]

\* C16: enqueueWrite returns false, leaving the queue as it is, exactly when
\* the queue holds max_queue_size requests; otherwise it appends the request
\* and returns true; the queue never holds more than max_queue_size.
C16_EnqueueBackpressure ==
  /\ [](Len(write_queue) <= max_queue_size)
  /\ [][(last_op'.op = "enqueue" /\ ops' = ops + 1) =>
          IF Len(write_queue) >= max_queue_size
          THEN last_op'.res = <<FALSE>> /\ QueueView' = QueueView
          ELSE /\ last_op'.res = <<TRUE>>
               /\ QueueView' = Append(QueueView,
                                      [page_id |-> last_op'.key,
                                       content |-> Content(PageOf(last_op'.val, last_op'.key))])]_vars

C16_Witness ==
  /\ last_op.op = "enqueue"
  /\ last_op.res = <<FALSE>>
  /\ Len(write_queue) = max_queue_size

\* The requests a writer thread has dequeued and not yet handed to storePage.
Unstored(w) == IF wpc[w] = "clear" THEN Tail(batch[w]) ELSE batch[w]

\* C17: a writer thread stores a snapshot of a page only when no snapshot of
\* the same page id enqueued earlier is still waiting in a batch. A page
\* object made later has the higher address, so among the requests alive the
\* address tells the order of the enqueueWrite calls.
C17_SamePageInOrder ==
  [][\A w \in Workers :
       (wpc[w] = "store" /\ wpc'[w] = "clear") =>
         \A w2 \in Workers \ {w} :
           \A i \in DOMAIN Unstored(w2) :
             ~ /\ Unstored(w2)[i].page_id = Head(batch[w]).page_id
               /\ Unstored(w2)[i].page < Head(batch[w]).page]_vars

\* C18: when flush() has passed waitForEmpty, no writer thread holds a
\* dequeued request it has not stored yet.
C18_FlushAfterWrites ==
  last_op.op = "flush" => \A w \in Workers : Unstored(w) = <<>>

\* C19: when stop() has joined the writer threads, the queue is empty and no
\* thread holds a request: everything that was queued when stop() was called
\* has gone through storePage.
C19_StopDrains ==
  (phase = "joining" /\ \A w \in Workers : wpc[w] = "done") =>
    /\ write_queue = <<>>
    /\ \A w \in Workers : batch[w] = <<>>

C19_Witness ==
  /\ phase = "joining"
  /\ \A w \in Workers : wpc[w] = "done"
  /\ last_op.op = "destroy"
  /\ last_op.val > 0

\* C13: replay hands no data record to a REDO handler unless the log holds
\* a COMMIT record of that record's transaction.
C13_OnlyCommittedRedone ==
  last_op.op = "replay" =>
    \A i \in DOMAIN events : events[i].e = "redo" =>
      \A r \in 1..wal_base : wal_file[r].lsn = events[i].id /\ wal_file[r].type \in {"INSERT", "DELETE"} =>
        \E c \in 1..wal_base :
          /\ wal_file[c].type = "COMMIT"
          /\ wal_file[c].transaction_id = wal_file[r].transaction_id

\* C14: replay hands to a REDO handler neither the first record whose stored
\* checksum differs from the checksum of its bytes nor any record after it.
C14_ReplayStopsAtCorrupt ==
  last_op.op = "replay" =>
    \A i \in DOMAIN events : events[i].e = "redo" =>
      \A r \in 1..wal_base : wal_file[r].lsn = events[i].id /\ wal_file[r].type \in {"INSERT", "DELETE"} =>
        \A b \in 1..r : wal_file[b] = Summed(wal_file[b])

C21_FlushAllIdempotent ==
  /\ [](last_op.op = "flushAll" => \A id \in DOMAIN cache : ~cache[id].is_dirty)
  /\ [][(last_op.op = "flushAll" /\ last_op'.op = "flushAll" /\ ops' = ops + 1) =>
          /\ last_op'.res = <<0>>
          /\ cache' = cache
          /\ lru_order' = lru_order
          /\ Blobs' = Blobs
          /\ page_to_hash' = page_to_hash
          /\ next_page_id' = next_page_id]_vars

C21_Witness ==
  /\ last_op.op = "flushAll"
  /\ last_op.val = 2
  /\ cache # EmptyMap
  /\ \E id \in DOMAIN cache : HashOf(expected[id].val, id) \in DOMAIN content_map

\* C22: a performCheckpoint that follows a performCheckpoint with no write
\* in between stores no page and leaves the engine as the first one left
\* it: cache, content store, WAL file, LSN counter and checkpoint LSN.
C22_CheckpointIdempotent ==
  [][(last_op.op = "checkpoint" /\ last_op'.op = "checkpoint" /\ ops' = ops + 1) =>
       /\ last_op'.res = <<0>>
       /\ cache' = cache
       /\ Blobs' = Blobs
       /\ page_to_hash' = page_to_hash
       /\ next_page_id' = next_page_id
       /\ wal_file' = wal_file
       /\ next_lsn' = next_lsn
       /\ last_checkpoint_lsn' = last_checkpoint_lsn
       /\ checkpointer'.last_checkpoint_lsn = checkpointer.last_checkpoint_lsn]_vars

\* C23: when truncate(n) has returned the WAL file holds no record with an
\* LSN below n.
C23_TruncateDropsPrefix ==
  last_op.op = "truncate" =>
    \A i \in DOMAIN wal_file : wal_file[i].lsn >= last_op.key

\* C24: when deleteKey(k) has returned, the WALManager has appended a
\* DELETE record for k under the active transaction.
C24_DeleteLogged ==
  last_op.op = "delete" =>
    \E i \in DOMAIN appended :
      /\ appended[i].type = "DELETE"
      /\ appended[i].key = last_op.key
      /\ appended[i].transaction_id = current_transaction

\* C25: the job a worker pops is, among the queued jobs that are due, one
\* of the highest priority and, among those, one scheduled earliest.
C25_HighestPriorityFirst ==
  [][\A j \in DOMAIN scheduler.jobs :
       (scheduler.jobs[j].status = "PENDING" /\ scheduler'.jobs[j].status = "RUNNING") =>
         \A k \in scheduler.job_queue \ {j} :
           scheduler.jobs[k].scheduled_at <= scheduler.now =>
             \/ scheduler.jobs[j].priority > scheduler.jobs[k].priority
             \/ /\ scheduler.jobs[j].priority = scheduler.jobs[k].priority
                /\ scheduler.jobs[j].scheduled_at <= scheduler.jobs[k].scheduled_at]_vars

\* C26: a job whose function has returned or thrown is COMPLETED if the
\* function returned true and FAILED otherwise, and it is counted once in
\* total_jobs_executed and once in successful_jobs or failed_jobs; with
\* no job running the total is the sum of the two.
C26_JobOutcomeCounted ==
  LET left == {j \in DOMAIN scheduler.jobs :
                 \/ j \in scheduler.completed_jobs
                 \/ \E w \in DOMAIN scheduler.worker :
                      /\ scheduler.worker[w].job = j
                      /\ scheduler.worker[w].pc \in {"retire", "terminate"}}
  IN /\ \A j \in left :
          scheduler.jobs[j].status =
            IF scheduler.jobs[j].execute_func = "true" THEN "COMPLETED" ELSE "FAILED"
     /\ scheduler.total_jobs_executed = Cardinality(left)
     /\ scheduler.total_jobs_executed = scheduler.successful_jobs + scheduler.failed_jobs

\* C27: a deleteRecord(page, slot_id) that returns true for a stored
\* record leaves page.header.checksum different from what it was.
C27_DeleteChangesChecksum ==
  [][(/\ last_op'.op = "deleteRecord"
      /\ last_op'.val = TRUE
      /\ ~slotted.slot_directory[last_op'.key + 1].is_deleted)
       => slotted'.header.checksum # slotted.header.checksum]_vars

C29_KeysStrictlyAscending ==
  \A a \in DOMAIN heap :
    \A i \in 1..(Len(heap[a].keys) - 1) : heap[a].keys[i] < heap[a].keys[i + 1]

\* The second of two inserts of the same key has returned, and a page
\* holds the key.
C29_Witness ==
  /\ last_op.op = "insert"
  /\ ops = 2
  /\ Cardinality({i \in DOMAIN appended : /\ appended[i].type = "INSERT"
                                          /\ appended[i].key = last_op.key}) = 2
  /\ \E a \in DOMAIN heap : heap[a].keys = <<last_op.key>>

\* C30: storePage returns different page ids for two pages that differ in
\* is_leaf, keys, children or data.
C30_DistinctContentDistinctId ==
  \A s \in stored, t \in stored :
    Content(PageOf(s.content, 0)) # Content(PageOf(t.content, 0)) => s.id # t.id

\* C31: with storePage called by several threads, no two different
\* contents are given the same page id, and every id storePage returned
\* resolves through page_to_hash and content_map to the content stored.
C31_ConcurrentStoreSerialised ==
  /\ \A s \in stored, t \in stored : s.content # t.content => s.id # t.id
  /\ \A s \in stored :
       /\ casGetPage(Me, s.id) # Null
       /\ Content(heap[casGetPage(Me, s.id)]) = Content(PageOf(s.content, 0))

\* C32: next_page_id never decreases, and a storePage that allocates an id
\* allocates one that no content holds yet.
C32_IdsNeverReused ==
  [][/\ next_page_id' >= next_page_id
     /\ (last_op'.op = "store" /\ page_to_hash' # page_to_hash) =>
          last_op'.res[1] \notin DOMAIN page_to_hash]_vars

C34_CleanMeansStored ==
  \A id \in DOMAIN cache :
    ~cache[id].is_dirty =>
      updateContentHash(heap[cache[id].page]).content_hash \in DOMAIN content_map

\* C35: when performCheckpoint appends its CHECKPOINT record with LSN c, no
\* cache entry is still dirty (every dirty entry comes from an insert whose
\* WAL record was appended before its putPage, hence with an LSN below c),
\* even when inserts run concurrently with the checkpoint.
C35_CheckpointCoversEarlierChanges ==
  [][(Len(appended') > Len(appended) /\ Last(appended').type = "CHECKPOINT")
       => \A id \in DOMAIN cache' : ~cache'[id].is_dirty]_vars

\* C36: stop() always returns: once it has cleared `running`, every worker
\* exits and is joined, whatever a worker about to wait was doing (a job
\* function that ends the process aside).
C36_StopReturns ==
  (scheduler.caller.pc = "notify")
    ~> (scheduler.caller.pc = "stopped" \/ scheduler.terminated)

\* C37: a job is held by one worker at a time; the job a worker is about
\* to execute is due, has left the queue and has not been executed before;
\* and the executions counted are as many as the jobs that have finished.
C37_ExecutedOnceWhenDue ==
  /\ \A w1 \in DOMAIN scheduler.worker, w2 \in DOMAIN scheduler.worker :
       (w1 # w2 /\ scheduler.worker[w1].job # 0)
         => scheduler.worker[w1].job # scheduler.worker[w2].job
  /\ \A w \in DOMAIN scheduler.worker :
       scheduler.worker[w].pc = "run"
         => /\ scheduler.jobs[scheduler.worker[w].job].status = "RUNNING"
            /\ scheduler.jobs[scheduler.worker[w].job].scheduled_at <= scheduler.now
            /\ scheduler.worker[w].job \notin scheduler.job_queue
  /\ scheduler.total_jobs_executed
       = Cardinality({j \in DOMAIN scheduler.jobs :
                        scheduler.jobs[j].status \in {"COMPLETED", "FAILED"}})

\* Two jobs have been executed, one of them scheduled for later than the
\* moment it was pushed at, while both workers were running.
C37_Witness ==
  /\ scheduler.total_jobs_executed = 2
  /\ \E j \in DOMAIN scheduler.jobs :
       scheduler.jobs[j].scheduled_at > 0 /\ scheduler.jobs[j].status = "COMPLETED"
  /\ \A w \in DOMAIN scheduler.worker : scheduler.worker[w].pc \notin {"none", "done"}

\* C38: a job that has finished executing (executeJob has moved it to
\* completed_jobs) is not in active_jobs, whatever the interleaving of
\* scheduleJob with the worker that ran it.
C38_FinishedNotActive ==
  \A j \in scheduler.completed_jobs : j \notin scheduler.active_jobs

\* C39: the last_checkpoint_lsn recorded by the CheckpointManager never
\* decreases, also with performCheckpoint running on several threads.
C39_CheckpointLsnMonotonic ==
  [][checkpointer'.last_checkpoint_lsn >= checkpointer.last_checkpoint_lsn]_vars

\* C40: among the records a tree has logged, no data record follows a
\* COMMIT or ABORT record of its own transaction id.
C40_NoRecordAfterTransactionEnd ==
  \A i \in DOMAIN appended, j \in DOMAIN appended :
    (i < j /\ appended[i].type \in {"COMMIT", "ABORT"}
           /\ appended[j].type \in {"INSERT", "DELETE", "UPDATE"})
      => appended[i].transaction_id # appended[j].transaction_id

\* The tree is being destroyed after an insert that followed both a
\* commit and an abort.
C40_Witness ==
  /\ phase = "joining"
  /\ \E i \in DOMAIN appended, j \in DOMAIN appended, k \in DOMAIN appended :
       /\ i < k /\ j < k
       /\ appended[i].type = "COMMIT" /\ appended[j].type = "ABORT"
       /\ appended[k].type = "INSERT"

====
